---- MODULE Spec2Model ----
(***************************************************************************)
(* PyWallet: the JSON record store (pywallet/modules/data_manager.py) and  *)
(* the aggregation engine built on it (pywallet/modules/analytics.py).     *)
(*                                                                         *)
(* The store file is modelled by its parse state: absent, unreadable,      *)
(* not valid JSON, valid JSON that is not an array, or a JSON array of     *)
(* expense objects.  A date string is modelled by its textual shape and    *)
(* its numeric fields, so that datetime.strptime and pandas.to_datetime    *)
(* can be computed on it.  A note is modelled by its length.               *)
(***************************************************************************)
EXTENDS Integers, Sequences, FiniteSets, TLC

VARIABLES file, lastSaved, result, procs, lastWriter, artifacts

vars == <<file, lastSaved, result, procs, lastWriter, artifacts>>

(***************************************************************************)
(* Configuration (pywallet/config.py)                                      *)
(***************************************************************************)
MIN_EXPENSE_AMOUNT == 0
MAX_EXPENSE_AMOUNT == 1000000
MAX_NOTE_LENGTH == 500
ANOMALY_THRESHOLD_SIGMA == 2
MIN_NOTES_FOR_TRAINING == 50
KMEANS_CLUSTERS == 3
MIN_DATA_POINTS_FOR_ML == 20
PREDICTION_WINDOW_MONTHS == 6

DEFAULT_CATEGORIES ==
    {"Food", "Transport", "Health", "Education", "Housing", "Entertainment",
     "Savings", "Shopping", "Travel", "Gifts", "Utilities", "Insurance", "Other"}

\* DEFAULT_CATEGORIES in the order of the list
CategoryOrder ==
    <<"Food", "Transport", "Health", "Education", "Housing", "Entertainment",
      "Savings", "Shopping", "Travel", "Gifts", "Utilities", "Insurance",
      "Other">>

Budget(c, b) == [category |-> c, budget |-> b]

\* A budget mapping is the sequence of its items, in the order of the dict.
DEFAULT_BUDGETS ==
    <<Budget("Food", 10000), Budget("Transport", 5000), Budget("Health", 3000),
      Budget("Education", 5000), Budget("Housing", 20000),
      Budget("Entertainment", 2000), Budget("Savings", 10000),
      Budget("Shopping", 3000), Budget("Travel", 5000), Budget("Gifts", 2000),
      Budget("Utilities", 3000), Budget("Insurance", 2000),
      Budget("Other", 1000)>>

(***************************************************************************)
(* Bounds of the model                                                     *)
(***************************************************************************)
MaxRecords == 2
MaxId == 3
MaxCsvRows == 2

\* Python's None where an integer is expected (ids are always >= 1).
None == -1

(***************************************************************************)
(* Date strings                                                            *)
(***************************************************************************)
\* "YYYY-MM-DD"
Ymd(y, m, d) == [fmt |-> "Y-m-d", y |-> y, m |-> m, d |-> d]
\* "YYYY-MM-DD HH:MM" with a time of day after midnight
YmdHM(y, m, d) == [fmt |-> "Y-m-d H:M", y |-> y, m |-> m, d |-> d]
\* text that is no date at all
GarbageDate == [fmt |-> "text", y |-> 0, m |-> 0, d |-> 0]
\* the text "nan" (str() of an empty CSV cell)
NanDate == [fmt |-> "nan", y |-> 0, m |-> 0, d |-> 0]
\* "YYYY-MM-DD 00:00:00"
YmdMidnight(y, m, d) == [fmt |-> "Y-m-d 00:00:00", y |-> y, m |-> m, d |-> d]
\* "YYYY-MM-DD HH:MM:SS" with a time of day after midnight
YmdHMS(y, m, d) == [fmt |-> "Y-m-d H:M:S", y |-> y, m |-> m, d |-> d]

IsLeap(y) == (y % 4 = 0 /\ y % 100 # 0) \/ y % 400 = 0

DaysInMonth(y, m) ==
    IF m = 2 THEN (IF IsLeap(y) THEN 29 ELSE 28)
    ELSE IF m \in {4, 6, 9, 11} THEN 30 ELSE 31

IsCalendarDate(y, m, d) ==
    /\ y >= 1
    /\ m \in 1..12
    /\ d >= 1
    /\ d <= DaysInMonth(y, m)

\* datetime.strptime(date, "%Y-%m-%d") returns instead of raising ValueError
strptime_ok(date) ==
    /\ date.fmt = "Y-m-d"
    /\ IsCalendarDate(date.y, date.m, date.d)

(***************************************************************************)
(* The store file                                                          *)
(***************************************************************************)
AbsentFile == [kind |-> "absent", records |-> <<>>]
UnreadableFile == [kind |-> "unreadable", records |-> <<>>]
CorruptFile == [kind |-> "corrupt", records |-> <<>>]
NonArrayFile == [kind |-> "nonarray", records |-> <<>>]
ArrayFile(data) == [kind |-> "array", records |-> data]

\* dict.get(key, default)
Get(e, key, default) == IF key \in DOMAIN e THEN e[key] ELSE default

MaxOf(S, default) ==
    IF S = {} THEN default ELSE CHOOSE x \in S : \A y \in S : y <= x

Range(s) == {s[i] : i \in 1..Len(s)}

\* The body of the try block of load_data: what it returns or raises.
load_data_try(f) ==
    IF f.kind = "absent" THEN [exc |-> "none", data |-> <<>>]
    ELSE IF f.kind = "unreadable" THEN [exc |-> "OSError", data |-> <<>>]
    ELSE IF f.kind = "corrupt" THEN [exc |-> "JSONDecodeError", data |-> <<>>]
    ELSE IF f.kind = "array" THEN [exc |-> "none", data |-> f.records]
    ELSE [exc |-> "none", data |-> <<>>]

\* A load_data whose handlers let the exception of the try block escape.
load_data_uncaught(f) ==
    LET r == load_data_try(f)
    IN  [raised |-> r.exc # "none", data |-> r.data]

load_data(f) ==
    LET r == load_data_try(f)
    IN  IF r.exc = "JSONDecodeError" THEN [raised |-> FALSE, data |-> <<>>]
        ELSE IF r.exc # "none" THEN [raised |-> FALSE, data |-> <<>>]
        ELSE [raised |-> FALSE, data |-> r.data]

\* How a call of save_data can end: the file is rewritten; mkdir or open
\* raises and the file is left as it was; or the write raises after open
\* has truncated the file.
SaveOutcomes == {"ok", "fail_before_write", "fail_mid_write"}

\* A save that opens the file for appending: a second array after the first
\* is not valid JSON.
save_data_append(f, data, outcome) ==
    CASE outcome = "ok" ->
            [ret |-> TRUE,
             file |-> IF f.kind = "array" THEN CorruptFile ELSE ArrayFile(data)]
      [] outcome = "fail_before_write" -> [ret |-> FALSE, file |-> f]
      [] OTHER -> [ret |-> FALSE, file |-> CorruptFile]

save_data(f, data, outcome) ==
    CASE outcome = "ok" -> [ret |-> TRUE, file |-> ArrayFile(data)]
      [] outcome = "fail_before_write" -> [ret |-> FALSE, file |-> f]
      [] OTHER -> [ret |-> FALSE, file |-> CorruptFile]

(***************************************************************************)
(* add_expense                                                             *)
(***************************************************************************)
MsgAmount == "Amount must be between"
MsgCategory == "Category must be one of"
MsgDate == "Date must be in YYYY-MM-DD format"
MsgNote == "Note must be less than"
MsgAdded == "Expense added successfully"
MsgSaveFailed == "Failed to save expense"

\* A validation that also refuses a note of exactly the maximum length.
add_validate_short_note(a) ==
    IF ~(MIN_EXPENSE_AMOUNT <= a.amount /\ a.amount <= MAX_EXPENSE_AMOUNT)
    THEN MsgAmount
    ELSE IF a.category \notin DEFAULT_CATEGORIES THEN MsgCategory
    ELSE IF ~strptime_ok(a.date) THEN MsgDate
    ELSE IF a.note >= MAX_NOTE_LENGTH THEN MsgNote
    ELSE ""

\* The message of the first failed validation, "" when all four pass.
add_validate(a) ==
    IF ~(MIN_EXPENSE_AMOUNT <= a.amount /\ a.amount <= MAX_EXPENSE_AMOUNT)
    THEN MsgAmount
    ELSE IF a.category \notin DEFAULT_CATEGORIES THEN MsgCategory
    ELSE IF ~strptime_ok(a.date) THEN MsgDate
    ELSE IF a.note > MAX_NOTE_LENGTH THEN MsgNote
    ELSE ""

\* An id generator that counts the records instead of taking the maximum.
new_id_by_count(data) == Len(data) + 1

new_id(data) == MaxOf({Get(e, "id", 0) : e \in Range(data)}, 0) + 1

expense_of(id, a) ==
    [id |-> id, amount |-> a.amount, category |-> a.category,
     date |-> a.date, note |-> a.note, username |-> a.username]

\* The whole call, given how the save ends.
add_expense(f, a, outcome) ==
    LET msg == add_validate(a)
        data == load_data(f).data
        id == new_id(data)
        saved == save_data(f, Append(data, expense_of(id, a)), outcome)
    IN  IF msg # ""
        THEN [file |-> f, saved |-> FALSE, data |-> <<>>,
              res |-> [op |-> "add", args |-> a, ok |-> FALSE, msg |-> msg,
                       id |-> None, loads |-> 0, saves |-> 0, saved |-> FALSE]]
        ELSE [file |-> saved.file, saved |-> saved.ret,
              data |-> Append(data, expense_of(id, a)),
              res |-> [op |-> "add", args |-> a, ok |-> saved.ret,
                       msg |-> IF saved.ret THEN MsgAdded ELSE MsgSaveFailed,
                       id |-> IF saved.ret THEN id ELSE None,
                       loads |-> 1, saves |-> 1, saved |-> saved.ret]]

(***************************************************************************)
(* delete_expense                                                          *)
(***************************************************************************)
MsgNotFound == "not found"
MsgDeleted == "deleted successfully"
MsgDeleteFailed == "Failed to delete expense"

\* A filter that drops every record up to the given id.
without_id_upto(data, expense_id) ==
    SelectSeq(data, LAMBDA e : Get(e, "id", None) > expense_id)

without_id(data, expense_id) ==
    SelectSeq(data, LAMBDA e : Get(e, "id", None) # expense_id)

\* A test that never reports a missing id.
nothing_removed_never(data, kept) == FALSE

\* len(data) == original_len
nothing_removed(data, kept) == Len(kept) = Len(data)

delete_expense(f, expense_id, outcome) ==
    LET data == load_data(f).data
        kept == without_id(data, expense_id)
        saved == save_data(f, kept, outcome)
    IN  IF nothing_removed(data, kept)
        THEN [file |-> f, saved |-> FALSE, data |-> <<>>,
              res |-> [op |-> "delete", id |-> expense_id, ok |-> FALSE,
                       msg |-> MsgNotFound, loads |-> 1, saves |-> 0,
                       saved |-> FALSE]]
        ELSE [file |-> saved.file, saved |-> saved.ret, data |-> kept,
              res |-> [op |-> "delete", id |-> expense_id, ok |-> saved.ret,
                       msg |-> IF saved.ret THEN MsgDeleted ELSE MsgDeleteFailed,
                       loads |-> 1, saves |-> 1, saved |-> saved.ret]]

(***************************************************************************)
(* import_from_csv                                                         *)
(***************************************************************************)
\* A cell of the amount column as pandas.read_csv delivers it.
IntCell(n) == [t |-> "int", v |-> n]
\* the number v/10, read as a float
TenthsCell(v) == [t |-> "tenths", v |-> v]
\* text that is no number
TextCell == [t |-> "text", v |-> 0]
\* an empty cell (NaN)
NanCell == [t |-> "nan", v |-> 0]

\* int(cell): the integer, or ValueError
int_of_cell(c) ==
    CASE c.t = "int" -> [exc |-> FALSE, v |-> c.v]
      [] c.t = "tenths" ->
            [exc |-> FALSE,
             v |-> IF c.v >= 0 THEN c.v \div 10 ELSE -((-c.v) \div 10)]
      [] OTHER -> [exc |-> TRUE, v |-> 0]

MsgCsvNotFound == "CSV file not found"
MsgCsvNotFile == "Path is not a file"
MsgCsvSuffix == "File must be a CSV file"
MsgCsvEmpty == "CSV file is empty"
MsgCsvParse == "CSV parsing error"
MsgCsvColumns == "CSV must have columns"
MsgImported == "Imported expenses successfully"
MsgImportSaveFailed == "Failed to save imported data"

\* The message of the failed precondition of an import, "" when the source
\* is read and has the required columns.
import_precondition(csv) ==
    CASE csv.state = "missing" -> MsgCsvNotFound
      [] csv.state = "not_file" -> MsgCsvNotFile
      [] csv.state = "not_csv" -> MsgCsvSuffix
      [] csv.state = "empty" -> MsgCsvEmpty
      [] csv.state = "unparseable" -> MsgCsvParse
      [] csv.state = "no_columns" -> MsgCsvColumns
      [] OTHER -> ""

\* An id step that hands the same id to every row.
import_next_id_stuck(next_id) == next_id

import_next_id(next_id) == next_id + 1

\* A loop that counts the skipped rows too.
import_rows_counting_all(rows, existing_data, next_id, imported_count) ==
    LET kept == SelectSeq(rows, LAMBDA row : ~int_of_cell(row.amount).exc)
    IN  [data |-> existing_data \o
                    [k \in 1..Len(kept) |->
                        [id |-> next_id + k - 1,
                         amount |-> int_of_cell(kept[k].amount).v,
                         category |-> kept[k].category, date |-> kept[k].date,
                         note |-> kept[k].note]],
         count |-> imported_count + Len(rows)]

\* The loop over the rows: a row whose amount does not convert is skipped, and
\* the k-th row that is kept gets the id that k-1 steps lead to from next_id.
import_rows(rows, existing_data, next_id, imported_count) ==
    LET kept == SelectSeq(rows, LAMBDA row : ~int_of_cell(row.amount).exc)
        step == import_next_id(next_id) - next_id
        expense(k) == [id |-> next_id + (k - 1) * step,
                       amount |-> int_of_cell(kept[k].amount).v,
                       category |-> kept[k].category, date |-> kept[k].date,
                       note |-> kept[k].note]
    IN  [data |-> existing_data \o [k \in 1..Len(kept) |-> expense(k)],
         count |-> imported_count + Len(kept)]

import_from_csv(f, csv, outcome) ==
    LET msg == import_precondition(csv)
        existing_data == load_data(f).data
        merged == import_rows(csv.rows, existing_data, new_id(existing_data), 0)
        saved == save_data(f, merged.data, outcome)
    IN  IF msg # ""
        THEN [file |-> f, saved |-> FALSE, data |-> <<>>,
              res |-> [op |-> "import", csv |-> csv, ok |-> FALSE,
                       msg |-> msg, count |-> 0, loads |-> 0, saves |-> 0,
                       saved |-> FALSE]]
        ELSE [file |-> saved.file, saved |-> saved.ret, data |-> merged.data,
              res |-> [op |-> "import", csv |-> csv, ok |-> saved.ret,
                       msg |-> IF saved.ret THEN MsgImported
                               ELSE MsgImportSaveFailed,
                       count |-> IF saved.ret THEN merged.count ELSE 0,
                       loads |-> 1, saves |-> 1, saved |-> saved.ret]]

(***************************************************************************)
(* load_dataframe                                                          *)
(***************************************************************************)
NaT == [nat |-> TRUE, y |-> 0, m |-> 0, d |-> 0, tod |-> 0]
\* tod is 0 at midnight and 1 at a later time of the day
Timestamp(y, m, d, tod) == [nat |-> FALSE, y |-> y, m |-> m, d |-> d, tod |-> tod]

\* pandas.to_datetime of one string: a Timestamp, NaT, or an exception
to_datetime(date) ==
    CASE date.fmt = "nan" -> [exc |-> FALSE, ts |-> NaT]
      [] /\ date.fmt \in {"Y-m-d", "Y-m-d H:M", "Y-m-d 00:00:00", "Y-m-d H:M:S"}
         /\ IsCalendarDate(date.y, date.m, date.d) ->
            [exc |-> FALSE,
             ts |-> Timestamp(date.y, date.m, date.d,
                              IF date.fmt \in {"Y-m-d", "Y-m-d 00:00:00"}
                              THEN 0 ELSE 1)]
      [] OTHER -> [exc |-> TRUE, ts |-> NaT]

\* The order of Timestamps.
TsKey(ts) == ((ts.y * 12 + ts.m) * 32 + ts.d) * 2 + ts.tod

\* pandas.to_datetime of the date column.  A string that is no date raises.
\* A column that mixes the two formats raises under pandas 2 (the format is
\* inferred from the first element) and parses under pandas 1: both builds
\* are possible outcomes.
to_datetime_column(data) ==
    LET formats == {data[i].date.fmt : i \in 1..Len(data)} \ {"nan"}
        parsed == [i \in 1..Len(data) |->
                     [data[i] EXCEPT !.date = to_datetime(data[i].date).ts]]
    IN  IF \E i \in 1..Len(data) : to_datetime(data[i].date).exc
        THEN {[raised |-> TRUE, rows |-> <<>>]}
        ELSE IF Cardinality(formats) > 1
        THEN {[raised |-> TRUE, rows |-> <<>>],
              [raised |-> FALSE, rows |-> parsed]}
        ELSE {[raised |-> FALSE, rows |-> parsed]}

\* A load_dataframe whose owner filter takes a record without a username
\* for a record of the user asking.
load_dataframe_keeping_unowned(f, username) ==
    LET loaded == load_data(f).data
        data == IF username # ""
                THEN SelectSeq(loaded,
                               LAMBDA e : Get(e, "username", username) = username)
                ELSE loaded
    IN  IF data = <<>>
        THEN {[raised |-> FALSE, rows |-> <<>>]}
        ELSE to_datetime_column(data)

\* The possible outcomes of load_dataframe: the table, or an exception.
load_dataframe(f, username) ==
    LET loaded == load_data(f).data
        data == IF username # ""
                THEN SelectSeq(loaded,
                               LAMBDA e : Get(e, "username", "") = username)
                ELSE loaded
    IN  IF data = <<>>
        THEN {[raised |-> FALSE, rows |-> <<>>]}
        ELSE to_datetime_column(data)

(***************************************************************************)
(* export_to_csv                                                           *)
(***************************************************************************)
MsgNoData == "No data to export"
MsgTraversal == "Output path cannot contain '..' (path traversal not allowed)"
MsgExported == "Exported expenses"
MsgCannotWrite == "Cannot write to output path"
MsgExportFailed == "Export failed"

\* output_path: None, a path, or a path with ".." in it
NoPath == "None"
ExportPaths == {NoPath, "out/expenses.csv", "../expenses.csv"}
ExportOutcomes == {"ok", "oserror"}

\* A date format that writes the time of day in every column.
date_format_with_time(rows) == TRUE

\* DataFrame.to_csv writes a datetime column as dates only when every
\* Timestamp of the column is at midnight, and with the time otherwise.
date_format_has_time(rows) ==
    \E i \in 1..Len(rows) : ~rows[i].date.nat /\ rows[i].date.tod # 0

\* The text of a Timestamp in the exported file; NaT is an empty cell, which
\* read_csv returns as NaN and str() turns into "nan".
date_cell(ts, with_time) ==
    IF ts.nat THEN NanDate
    ELSE IF ~with_time THEN Ymd(ts.y, ts.m, ts.d)
    ELSE IF ts.tod = 0 THEN YmdMidnight(ts.y, ts.m, ts.d)
    ELSE YmdHMS(ts.y, ts.m, ts.d)

\* The rows of the file that df.to_csv(output_path, index=False) writes, as
\* read_csv returns them: an integer amount is an integer cell, and an empty
\* note is an empty cell, whose str() is "nan" (a text of length 3).
to_csv(rows) ==
    [i \in 1..Len(rows) |->
        [amount |-> IntCell(rows[i].amount),
         category |-> rows[i].category,
         date |-> date_cell(rows[i].date, date_format_has_time(rows)),
         note |-> IF rows[i].note = 0 THEN 3 ELSE rows[i].note]]

\* The possible outcomes of export_to_csv: the result and the file written.
export_to_csv(f, output_path, outcome) ==
    {IF df.raised
     THEN [ok |-> FALSE, msg |-> MsgExportFailed, count |-> 0, written |-> FALSE,
           csv |-> <<>>]
     ELSE IF df.rows = <<>>
     THEN [ok |-> FALSE, msg |-> MsgNoData, count |-> 0, written |-> FALSE,
           csv |-> <<>>]
     ELSE IF output_path = "../expenses.csv"
     THEN [ok |-> FALSE, msg |-> MsgTraversal, count |-> 0, written |-> FALSE,
           csv |-> <<>>]
     ELSE IF outcome = "oserror"
     THEN [ok |-> FALSE, msg |-> MsgCannotWrite, count |-> 0,
           written |-> FALSE, csv |-> <<>>]
     ELSE [ok |-> TRUE, msg |-> MsgExported, count |-> Len(df.rows),
           written |-> TRUE, csv |-> to_csv(df.rows)]
     : df \in load_dataframe(f, "")}

(***************************************************************************)
(* Analytics                                                               *)
(***************************************************************************)
\* df['amount'].sum(), summed by halves
RECURSIVE SumAmount(_)
SumAmount(rows) ==
    IF rows = <<>> THEN 0
    ELSE IF Len(rows) = 1 THEN rows[1].amount
    ELSE SumAmount(SubSeq(rows, 1, Len(rows) \div 2))
            + SumAmount(SubSeq(rows, Len(rows) \div 2 + 1, Len(rows)))

\* groupby('category')['amount'].sum().to_dict()
GroupSum(rows) ==
    [c \in {rows[i].category : i \in 1..Len(rows)} |->
        SumAmount(SelectSeq(rows, LAMBDA r : r.category = c))]

\* A month test that looks at the year only.
in_month_any(r, year, month) ==
    ~r.date.nat /\ r.date.y = year

in_month(r, year, month) ==
    ~r.date.nat /\ r.date.y = year /\ r.date.m = month

monthly_summary(df, year, month) ==
    IF df = <<>>
    THEN [year |-> year, month |-> month, total |-> 0, by_category |-> <<>>,
          daily_breakdown |-> <<>>, transaction_count |-> 0]
    ELSE LET month_data == SelectSeq(df, LAMBDA r : in_month(r, year, month))
             on_day(day) == SelectSeq(month_data, LAMBDA r : r.date.d = day)
         IN  [year |-> year, month |-> month,
              total |-> SumAmount(month_data),
              by_category |-> GroupSum(month_data),
              daily_breakdown |->
                  [day \in {x \in 1..31 : Len(on_day(x)) > 0} |->
                      SumAmount(on_day(day))],
              transaction_count |-> Len(month_data)]

\* None for a date argument
NoDate == [fmt |-> "none", y |-> 0, m |-> 0, d |-> 0]

\* df[df['date'] >= start_date], df[df['date'] <= end_date]: the string is
\* converted to a Timestamp; NaT compares false.
date_ge(r, start_date) ==
    ~r.date.nat /\ TsKey(r.date) >= TsKey(to_datetime(start_date).ts)

date_le(r, end_date) ==
    ~r.date.nat /\ TsKey(r.date) <= TsKey(to_datetime(end_date).ts)

(***************************************************************************)
(* filter_expenses                                                         *)
(***************************************************************************)
\* None for an amount argument, and an amount argument
NoBound == [given |-> FALSE, v |-> 0]
Bound(v) == [given |-> TRUE, v |-> v]

\* "if min_amount:", which takes a bound of 0 for no bound
bound_truthy(b) == b.given /\ b.v # 0

\* "if min_amount is not None:"
bound_given(b) == b.given

\* category = "" stands for None and for the empty string
filter_expenses(df, category, start_date, end_date, min_amount, max_amount) ==
    LET by_category == IF category # ""
                       THEN SelectSeq(df, LAMBDA r : r.category = category)
                       ELSE df
        from == IF start_date # NoDate
                THEN SelectSeq(by_category, LAMBDA r : date_ge(r, start_date))
                ELSE by_category
        ranged == IF end_date # NoDate
                  THEN SelectSeq(from, LAMBDA r : date_le(r, end_date))
                  ELSE from
        above == IF bound_given(min_amount)
                 THEN SelectSeq(ranged, LAMBDA r : r.amount >= min_amount.v)
                 ELSE ranged
    IN  IF bound_given(max_amount)
        THEN SelectSeq(above, LAMBDA r : r.amount <= max_amount.v)
        ELSE above

\* percentage and average are quotients of integers: [num, den]
Quot(n, d) == [num |-> n, den |-> d]

category_summary(df, start_date, end_date) ==
    LET from == IF start_date # NoDate
                THEN SelectSeq(df, LAMBDA r : date_ge(r, start_date)) ELSE df
        ranged == IF end_date # NoDate
                  THEN SelectSeq(from, LAMBDA r : date_le(r, end_date))
                  ELSE from
        total_spending == SumAmount(ranged)
        of(c) == SelectSeq(ranged, LAMBDA r : r.category = c)
    IN  IF df = <<>> \/ ranged = <<>>
        THEN <<>>
        ELSE [c \in {ranged[i].category : i \in 1..Len(ranged)} |->
                [total |-> SumAmount(of(c)),
                 count |-> Len(of(c)),
                 percentage |-> IF total_spending > 0
                                THEN Quot(SumAmount(of(c)) * 100, total_spending)
                                ELSE Quot(0, 1),
                 average |-> Quot(SumAmount(of(c)), Len(of(c)))]]

\* None for the custom_budgets argument, or the mapping given
NoBudgets == [given |-> FALSE, items |-> <<>>]
Budgets(items) == [given |-> TRUE, items |-> items]

\* A loop with "if" in the place of "elif": a category at 100 percent or more
\* is entered as critical and as warning.
RECURSIVE budget_loop_without_elif(_, _, _)
budget_loop_without_elif(items, current_month, acc) ==
    IF items = <<>> THEN acc
    ELSE LET category == Head(items).category
             budget == Head(items).budget
             spending == SumAmount(SelectSeq(current_month,
                                     LAMBDA r : r.category = category))
             percentage == IF budget > 0 THEN [num |-> spending * 100, den |-> budget]
                           ELSE [num |-> 0, den |-> 1]
             alert(status) == [category |-> category, status |-> status,
                               budget |-> budget, spending |-> spending,
                               percentage |-> percentage]
         IN  IF percentage.num >= 100 * percentage.den
             THEN budget_loop_without_elif(Tail(items), current_month,
                     [acc EXCEPT !.alerts = Append(Append(@, alert("critical")),
                                                   alert("warning")),
                                 !.critical_count = @ + 1,
                                 !.warning_count = @ + 1])
             ELSE IF percentage.num >= 80 * percentage.den
             THEN budget_loop_without_elif(Tail(items), current_month,
                     [acc EXCEPT !.alerts = Append(@, alert("warning")),
                                 !.warning_count = @ + 1])
             ELSE budget_loop_without_elif(Tail(items), current_month,
                     [acc EXCEPT !.on_track_count = @ + 1])

\* The loop of budget_alert over the items of the mapping.
RECURSIVE budget_loop(_, _, _)
budget_loop(items, current_month, acc) ==
    IF items = <<>> THEN acc
    ELSE LET category == Head(items).category
             budget == Head(items).budget
             spending == SumAmount(SelectSeq(current_month,
                                     LAMBDA r : r.category = category))
             percentage == IF budget > 0 THEN Quot(spending * 100, budget)
                           ELSE Quot(0, 1)
             alert(status) == [category |-> category, status |-> status,
                               budget |-> budget, spending |-> spending,
                               percentage |-> percentage]
         IN  IF percentage.num >= 100 * percentage.den
             THEN budget_loop(Tail(items), current_month,
                     [acc EXCEPT !.alerts = Append(@, alert("critical")),
                                 !.critical_count = @ + 1])
             ELSE IF percentage.num >= 80 * percentage.den
             THEN budget_loop(Tail(items), current_month,
                     [acc EXCEPT !.alerts = Append(@, alert("warning")),
                                 !.warning_count = @ + 1])
             ELSE budget_loop(Tail(items), current_month,
                     [acc EXCEPT !.on_track_count = @ + 1])

\* An empty-store answer that reports no category at all.
budget_alert_no_data_zero(custom_budgets) ==
    [status |-> "No data", alerts |-> <<>>, on_track_count |-> 0,
     warning_count |-> 0, critical_count |-> 0,
     total_categories |-> Len(custom_budgets)]

budget_alert_no_data(custom_budgets) ==
    [status |-> "No data", alerts |-> <<>>,
     on_track_count |-> Len(custom_budgets),
     warning_count |-> 0, critical_count |-> 0,
     total_categories |-> Len(custom_budgets)]

\* now is the current year and month.
budget_alert(df, budgets_arg, now) ==
    LET custom_budgets == IF ~budgets_arg.given THEN DEFAULT_BUDGETS
                          ELSE budgets_arg.items
        current_month == SelectSeq(df, LAMBDA r : in_month(r, now.y, now.m))
        counted == budget_loop(custom_budgets, current_month,
                       [alerts |-> <<>>, on_track_count |-> 0,
                        warning_count |-> 0, critical_count |-> 0])
    IN  IF df = <<>>
        THEN budget_alert_no_data(custom_budgets)
        ELSE [status |-> "", alerts |-> counted.alerts,
              on_track_count |-> counted.on_track_count,
              warning_count |-> counted.warning_count,
              critical_count |-> counted.critical_count,
              total_categories |-> Len(custom_budgets)]

(***************************************************************************)
(* Inputs                                                                  *)
(***************************************************************************)
Users == {"alice", "bob"}

ValidAdd1 ==
    [amount |-> 500, category |-> "Food", date |-> Ymd(2024, 1, 15),
     note |-> 5, username |-> "alice"]
ValidAdd2 ==
    [amount |-> MAX_EXPENSE_AMOUNT, category |-> "Transport",
     date |-> Ymd(2024, 1, 31), note |-> MAX_NOTE_LENGTH, username |-> "bob"]
ValidAdd3 ==
    [amount |-> MIN_EXPENSE_AMOUNT, category |-> "Food",
     date |-> Ymd(2024, 2, 29), note |-> 0, username |-> "alice"]

AddInputs ==
    {ValidAdd1, ValidAdd2, ValidAdd3}
    \cup {[ValidAdd1 EXCEPT !.amount = x] :
             x \in {MIN_EXPENSE_AMOUNT - 1, MAX_EXPENSE_AMOUNT + 1}}
    \cup {[ValidAdd1 EXCEPT !.category = "Bogus"]}
    \cup {[ValidAdd1 EXCEPT !.date = x] :
             x \in {Ymd(2023, 2, 29), YmdHM(2024, 1, 31), GarbageDate}}
    \cup {[ValidAdd1 EXCEPT !.note = MAX_NOTE_LENGTH + 1]}

GoodRow ==
    [amount |-> IntCell(300), category |-> "Food", date |-> Ymd(2024, 1, 15),
     note |-> 0]
TimedRow ==
    [amount |-> TenthsCell(7005), category |-> "Transport",
     date |-> YmdHM(2024, 1, 31), note |-> 3]
WildRow ==
    [amount |-> IntCell(-5), category |-> "Bogus", date |-> GarbageDate,
     note |-> 3]
TextAmountRow ==
    [amount |-> TextCell, category |-> "Food", date |-> Ymd(2024, 1, 15),
     note |-> 0]

SeqsUpTo(S, n) == UNION {[1..k -> S] : k \in 0..n}

\* CSV sources: files of up to MaxCsvRows rows, of which at most one row is
\* not a good row, and sources that fail a precondition.
CsvInputs ==
    {[state |-> "ok", rows |-> rows] :
        rows \in {r \in SeqsUpTo({GoodRow, TimedRow, WildRow, TextAmountRow},
                                 MaxCsvRows) :
                     Cardinality({k \in 1..Len(r) : r[k] # GoodRow}) <= 1}}
    \cup {[state |-> st, rows |-> <<>>] :
             st \in {"missing", "not_file", "not_csv", "empty", "unparseable",
                     "no_columns"}}

MonthQueries == {[y |-> 2024, m |-> 1], [y |-> 2024, m |-> 2],
                 [y |-> 2023, m |-> 1]}

BudgetInputs ==
    {NoBudgets, Budgets(<<>>),
     Budgets(<<Budget("Food", 500), Budget("Transport", 0)>>),
     Budgets(<<Budget("Food", 1000)>>)}

Nows == {[y |-> 2024, m |-> 1], [y |-> 2024, m |-> 2]}

(***************************************************************************)
(* The sequential system: one call at a time, each call an atomic step     *)
(***************************************************************************)
Idle == [pc |-> "idle"]

Procs == {1, 2}

Init ==
    /\ file \in {AbsentFile, UnreadableFile, CorruptFile, NonArrayFile}
    /\ lastSaved = <<>>
    /\ result = [op |-> "none"]
    /\ procs = [p \in Procs |-> Idle]
    /\ lastWriter = 0
    /\ artifacts = {}

\* The store as load_data returns it.
Store == load_data(file).data

Commit(r) ==
    /\ file' = r.file
    /\ lastSaved' = IF r.saved THEN r.data ELSE lastSaved
    /\ result' = r.res
    /\ UNCHANGED <<procs, lastWriter, artifacts>>

Add(a) ==
    /\ add_validate(a) = "" =>
          /\ Len(Store) < MaxRecords
          /\ new_id(Store) <= MaxId
    /\ \E outcome \in SaveOutcomes : Commit(add_expense(file, a, outcome))

Delete(expense_id) ==
    \E outcome \in SaveOutcomes :
        LET r == delete_expense(file, expense_id, outcome)
        IN  /\ r.res.op = "delete"
            /\ Commit(r)

Import(csv) ==
    /\ LET merged == import_rows(csv.rows, Store, new_id(Store), 0).data
       IN  /\ Len(merged) <= MaxRecords
           /\ \A i \in 1..Len(merged) : merged[i].id <= MaxId
    /\ \E outcome \in SaveOutcomes : Commit(import_from_csv(file, csv, outcome))

Load ==
    /\ result' = [op |-> "load", raised |-> load_data(file).raised,
                  data |-> load_data(file).data]
    /\ UNCHANGED <<file, lastSaved, procs, lastWriter, artifacts>>

MonthlySummary(year, month) ==
    /\ \E df \in load_dataframe(file, "") :
          result' = [op |-> "monthly_summary", year |-> year, month |-> month,
                     raised |-> df.raised,
                     summary |-> monthly_summary(df.rows, year, month)]
    /\ UNCHANGED <<file, lastSaved, procs, lastWriter, artifacts>>

CategorySummary(start_date, end_date) ==
    /\ \E df \in load_dataframe(file, "") :
          result' = [op |-> "category_summary", start_date |-> start_date,
                     end_date |-> end_date, raised |-> df.raised,
                     summary |-> category_summary(df.rows, start_date, end_date)]
    /\ UNCHANGED <<file, lastSaved, procs, lastWriter, artifacts>>

BudgetAlert(budgets_arg, now) ==
    /\ \E df \in load_dataframe(file, "") :
          result' = [op |-> "budget_alert", budgets |-> budgets_arg,
                     now |-> now, raised |-> df.raised,
                     report |-> budget_alert(df.rows, budgets_arg, now)]
    /\ UNCHANGED <<file, lastSaved, procs, lastWriter, artifacts>>

LoadDataframe(username) ==
    /\ \E df \in load_dataframe(file, username) :
          result' = [op |-> "load_dataframe", username |-> username,
                     raised |-> df.raised, rows |-> df.rows]
    /\ UNCHANGED <<file, lastSaved, procs, lastWriter, artifacts>>

Export(output_path) ==
    /\ \E outcome \in ExportOutcomes :
          \E r \in export_to_csv(file, output_path, outcome) :
              result' = [op |-> "export", output_path |-> output_path,
                         ok |-> r.ok, msg |-> r.msg, count |-> r.count,
                         written |-> r.written, csv |-> r.csv]
    /\ UNCHANGED <<file, lastSaved, procs, lastWriter, artifacts>>

Next ==
    \/ \E a \in AddInputs : Add(a)
    \/ \E expense_id \in 0..MaxId : Delete(expense_id)
    \/ \E csv \in CsvInputs : Import(csv)
    \/ Load
    \/ \E q \in MonthQueries : MonthlySummary(q.y, q.m)
    \/ \E q \in MonthQueries :
          CategorySummary(Ymd(q.y, q.m, 1), Ymd(q.y, q.m, DaysInMonth(q.y, q.m)))
    \/ CategorySummary(NoDate, NoDate)
    \/ \E b \in BudgetInputs, now \in Nows : BudgetAlert(b, now)
    \/ \E output_path \in ExportPaths : Export(output_path)
    \/ \E username \in Users : LoadDataframe(username)

Spec == Init /\ [][Next]_vars

(***************************************************************************)
(* Properties of the record store                                          *)
(***************************************************************************)
StoreAfter == load_data(file').data

HasId(data, id) == \E i \in 1..Len(data) : data[i].id = id

\* data without its i-th record
RemoveAt(data, i) == SubSeq(data, 1, i - 1) \o SubSeq(data, i + 1, Len(data))

\* C1: a valid add whose save succeeds leaves the store as it was plus one new
\* record at the end; that record carries the returned id, which is greater
\* than every id the store held before, and is 1 on an empty or absent store.
AddAppendsOneRecordWithGreaterId ==
    [][(result'.op = "add" /\ result'.ok) =>
          LET new == StoreAfter[Len(StoreAfter)]
          IN  /\ Len(StoreAfter) = Len(Store) + 1
              /\ SubSeq(StoreAfter, 1, Len(Store)) = Store
              /\ new.id = result'.id
              /\ new.amount = result'.args.amount
              /\ new.category = result'.args.category
              /\ new.date = result'.args.date
              /\ new.note = result'.args.note
              /\ new.username = result'.args.username
              /\ \A i \in 1..Len(Store) : new.id > Store[i].id
              /\ (Store = <<>> => result'.id = 1)]_vars

\* An add has succeeded on a store that had lost its first record: the new id
\* is above the remaining one.
AddAfterDeleteReached ==
    /\ result.op = "add"
    /\ result.ok
    /\ Len(Store) = 2
    /\ Store[1].id = 2
    /\ result.id = 3

\* The verdict of delete on an id that no record has.
DeleteMissing ==
    (result'.op = "delete" /\ ~HasId(Store, result'.id)) =>
        /\ ~result'.ok
        /\ result'.msg = MsgNotFound
        /\ MsgNotFound # MsgDeleteFailed
        /\ file' = file

\* C2 as stated: delete of a missing id fails with the not-found message and
\* changes nothing; delete of a stored id returns ok and removes that record.
DeleteOfStoredIdAlwaysSucceeds ==
    [][/\ DeleteMissing
       /\ (result'.op = "delete" /\ HasId(Store, result'.id)) =>
             /\ result'.ok
             /\ \E i \in 1..Len(Store) :
                   /\ Store[i].id = result'.id
                   /\ StoreAfter = RemoveAt(Store, i)]_vars

\* C2 amended: delete of a missing id fails with the not-found message and
\* changes nothing; delete of a stored id whose save succeeds returns ok and
\* the store is the previous one minus that record; when the save fails it
\* returns not ok with the save-failure message.
DeleteRemovesExactlyTheRecord ==
    [][/\ DeleteMissing
       /\ (result'.op = "delete" /\ HasId(Store, result'.id)) =>
             /\ result'.ok = result'.saved
             /\ result'.saved =>
                   \E i \in 1..Len(Store) :
                       /\ Store[i].id = result'.id
                       /\ StoreAfter = RemoveAt(Store, i)
             /\ ~result'.saved => result'.msg = MsgDeleteFailed]_vars

\* The last of two records has been deleted and the first one is left.
DeleteOfLastRecordReached ==
    /\ result.op = "delete"
    /\ result.ok
    /\ result.id = 2
    /\ Len(Store) = 1
    /\ Store[1].id = 1

\* C3: no two records of the store have the same id.
IdsAreUnique ==
    \A i, j \in 1..Len(Store) : i # j => Store[i].id # Store[j].id

\* An import has put two records into the store.
ImportOfTwoRowsReached ==
    /\ result.op = "import"
    /\ result.ok
    /\ result.count = 2
    /\ Len(Store) = 2

\* The four rejections of the claim, stated on the arguments.
Rejected(a) ==
    \/ a.amount < MIN_EXPENSE_AMOUNT
    \/ a.amount > MAX_EXPENSE_AMOUNT
    \/ a.category \notin DEFAULT_CATEGORIES
    \/ ~strptime_ok(a.date)
    \/ a.note > MAX_NOTE_LENGTH

ValidationMessages == {MsgAmount, MsgCategory, MsgDate, MsgNote}

StoredRecordsAreValid ==
    \A i \in 1..Len(Store) :
        /\ Store[i].category \in DEFAULT_CATEGORIES
        /\ MIN_EXPENSE_AMOUNT <= Store[i].amount
        /\ Store[i].amount <= MAX_EXPENSE_AMOUNT
        /\ ~to_datetime(Store[i].date).exc
        /\ ~to_datetime(Store[i].date).ts.nat

RECURSIVE SumValues(_, _)
SumValues(f, S) ==
    IF S = {} THEN 0
    ELSE LET x == CHOOSE x \in S : TRUE
         IN  f[x] + SumValues(f, S \ {x})

\* C8: on a non-empty store the total that monthly_summary reports equals the
\* sum of the category totals of category_summary over the first to the last
\* day of the month, and the sum of its own by_category values.
MonthlyTotalAgreesWithCategorySummary ==
    (result.op = "monthly_summary" /\ ~result.raised /\ Store # <<>>) =>
        \A df \in load_dataframe(file, "") :
            ~df.raised =>
                LET first == Ymd(result.year, result.month, 1)
                    last == Ymd(result.year, result.month,
                                DaysInMonth(result.year, result.month))
                    by_range == category_summary(df.rows, first, last)
                    by_category == result.summary.by_category
                IN  /\ result.summary.total =
                          SumValues([c \in DOMAIN by_range |-> by_range[c].total],
                                    DOMAIN by_range)
                    /\ result.summary.total =
                          SumValues(by_category, DOMAIN by_category)

\* The stored records whose date string names a day of the month.
DatedIn(year, month) ==
    SelectSeq(Store, LAMBDA e : /\ e.date.fmt \in {"Y-m-d", "Y-m-d H:M"}
                                /\ e.date.y = year
                                /\ e.date.m = month)

\* C9: for any store and month monthly_summary returns the sum and the number
\* of the records dated in the month, their sums per category, and a daily
\* entry exactly for the days that have a record, with the sum of the day.
MonthlySummaryReportsTheMonth ==
    result.op = "monthly_summary" =>
        LET recs == DatedIn(result.year, result.month)
            sum == result.summary
            of_category(c) == SelectSeq(recs, LAMBDA e : e.category = c)
            of_day(day) == SelectSeq(recs, LAMBDA e : e.date.d = day)
        IN  /\ ~result.raised
            /\ sum.total = SumAmount(recs)
            /\ sum.transaction_count = Len(recs)
            /\ DOMAIN sum.by_category = {recs[i].category : i \in 1..Len(recs)}
            /\ \A c \in DOMAIN sum.by_category :
                  sum.by_category[c] = SumAmount(of_category(c))
            /\ DOMAIN sum.daily_breakdown = {recs[i].date.d : i \in 1..Len(recs)}
            /\ \A day \in DOMAIN sum.daily_breakdown :
                  sum.daily_breakdown[day] = SumAmount(of_day(day))

\* C10: on an empty store budget_alert returns no alert, no warning and no
\* critical category, and counts every budgeted category as on track.
BudgetAlertOnEmptyStore ==
    (result.op = "budget_alert" /\ Store = <<>>) =>
        LET configured == IF result.budgets.given
                          THEN Len(result.budgets.items)
                          ELSE Len(DEFAULT_BUDGETS)
        IN  /\ ~result.raised
            /\ result.report.alerts = <<>>
            /\ result.report.warning_count = 0
            /\ result.report.critical_count = 0
            /\ result.report.on_track_count = configured
            /\ result.report.total_categories = configured

\* budget_alert with two budgets on a store that a failed write has emptied.
BudgetAlertOnEmptiedStoreReached ==
    /\ result.op = "budget_alert"
    /\ Store = <<>>
    /\ lastSaved # <<>>
    /\ result.budgets.given
    /\ result.report.on_track_count = 2

\* The status of a budget item for the spend of its category.
StatusOf(spend, budget) ==
    IF budget > 0 /\ spend * 100 >= 100 * budget THEN "critical"
    ELSE IF budget > 0 /\ spend * 100 >= 80 * budget THEN "warning"
    ELSE "on_track"

\* C11: when budget_alert returns on a non-empty store, each budgeted category
\* is judged on the sum of its records dated in the current month: percentage
\* is spend/budget*100 (0 for a budget of 0), critical from 100, warning from
\* 80 to below 100, on track otherwise; the alerts are the critical and the
\* warning categories in the order of the mapping.  A budget of 1000 with a
\* spend of 850 gives one warning entry at 85 percent.
BudgetAlertClassifiesCurrentMonth ==
    /\ (result.op = "budget_alert" /\ ~result.raised /\ Store # <<>>) =>
          LET items == IF result.budgets.given THEN result.budgets.items
                       ELSE DEFAULT_BUDGETS
              recs == DatedIn(result.now.y, result.now.m)
              spend(c) == SumAmount(SelectSeq(recs, LAMBDA e : e.category = c))
              status(it) == StatusOf(spend(it.category), it.budget)
              alerting == SelectSeq(items, LAMBDA it : status(it) # "on_track")
              with(st) == Len(SelectSeq(items, LAMBDA it : status(it) = st))
              report == result.report
          IN  /\ Len(report.alerts) = Len(alerting)
              /\ \A k \in 1..Len(alerting) :
                    /\ report.alerts[k].category = alerting[k].category
                    /\ report.alerts[k].status = status(alerting[k])
                    /\ report.alerts[k].spending = spend(alerting[k].category)
                    /\ report.alerts[k].percentage =
                          Quot(spend(alerting[k].category) * 100,
                               alerting[k].budget)
              /\ report.critical_count = with("critical")
              /\ report.warning_count = with("warning")
              /\ report.on_track_count = with("on_track")
              /\ report.total_categories = Len(items)
    /\ LET now == [y |-> 2024, m |-> 1]
           df == <<[id |-> 1, amount |-> 850, category |-> "Food",
                    date |-> Timestamp(2024, 1, 10, 0), note |-> 0],
                   [id |-> 2, amount |-> 900, category |-> "Food",
                    date |-> Timestamp(2023, 12, 31, 0), note |-> 0]>>
           report == budget_alert(df, Budgets(<<Budget("Food", 1000)>>), now)
       IN  /\ Len(report.alerts) = 1
           /\ report.alerts[1].status = "warning"
           /\ report.alerts[1].spending = 850
           /\ report.alerts[1].percentage.num = 85 * report.alerts[1].percentage.den
           /\ report.warning_count = 1

\* budget_alert on two January records of 500 and 300 under a budget of 1000:
\* one warning at exactly 80 percent.
BudgetWarningAtEightyReached ==
    /\ result.op = "budget_alert"
    /\ ~result.raised
    /\ Len(Store) = 2
    /\ result.budgets = Budgets(<<Budget("Food", 1000)>>)
    /\ result.report.warning_count = 1
    /\ result.report.alerts[1].spending = 800
    /\ result.report.alerts[1].percentage = Quot(80000, 1000)

\* A record as the data model describes it: what add_expense accepts.
WellFormed(e) ==
    /\ MIN_EXPENSE_AMOUNT <= e.amount
    /\ e.amount <= MAX_EXPENSE_AMOUNT
    /\ e.category \in DEFAULT_CATEGORIES
    /\ strptime_ok(e.date)
    /\ e.note <= MAX_NOTE_LENGTH

Triples(data) ==
    [i \in 1..Len(data) |-> <<data[i].amount, data[i].category, data[i].date>>]

SameMultiset(s, t) ==
    /\ Len(s) = Len(t)
    /\ \A x \in Range(s) \cup Range(t) :
          Cardinality({i \in 1..Len(s) : s[i] = x})
              = Cardinality({i \in 1..Len(t) : t[i] = x})

\* C16: an export of a non-empty store of well-formed records fails only
\* for the output path or the write, and when it succeeds, importing the
\* exported file into an empty store gives a store with the same multiset of
\* (amount, category, date) triples and an imported_count equal to the number
\* of exported records.
ExportThenImportReproducesTheTriples ==
    (/\ result.op = "export"
     /\ Store # <<>>
     /\ \A i \in 1..Len(Store) : WellFormed(Store[i])) =>
        /\ ~result.ok => result.msg \in {MsgTraversal, MsgCannotWrite}
        /\ result.ok =>
              LET r == import_from_csv(AbsentFile,
                                       [state |-> "ok", rows |-> result.csv],
                                       "ok")
              IN  /\ result.count = Len(Store)
                  /\ r.res.ok
                  /\ r.res.count = result.count
                  /\ SameMultiset(Triples(r.data), Triples(Store))

\* A store of two well-formed records of different categories, one of them
\* with an empty note, has been exported.
ExportOfTwoRecordsReached ==
    /\ result.op = "export"
    /\ result.ok
    /\ Len(Store) = 2
    /\ \A i \in 1..Len(Store) : WellFormed(Store[i])
    /\ Store[1].category # Store[2].category
    /\ \E i \in 1..2 : Store[i].note = 0
    /\ Len(result.csv) = 2

Ids(data) == [i \in 1..Len(data) |-> data[i].id]

\* The store without the records that users other than u own.
OthersRemoved(data, u) ==
    SelectSeq(data, LAMBDA e : Get(e, "username", "") \in {"", u})

\* C17: the owner-filtered table of user u holds exactly the stored records
\* whose username is u, and a monthly summary shown to a user aggregates no
\* record of another user: it is the summary of the store without the
\* records of the users other than the one it is computed for.
EachUserSeesOnlyOwnRecords ==
    /\ (result.op = "load_dataframe" /\ ~result.raised) =>
          Ids(result.rows)
              = Ids(SelectSeq(Store, LAMBDA e :
                                  Get(e, "username", "") = result.username))
    /\ (result.op = "monthly_summary" /\ ~result.raised) =>
          \E u \in Users :
              \E df \in load_dataframe(ArrayFile(OthersRemoved(Store, u)), "") :
                  /\ ~df.raised
                  /\ result.summary
                        = monthly_summary(df.rows, result.year, result.month)

\* C18: the id that a successful add returns right after a successful delete
\* is greater than the id of the deleted record, which the store had assigned
\* before.
DeletedIdIsNotAssignedAgain ==
    [][(/\ result.op = "delete"
        /\ result.ok
        /\ result'.op = "add"
        /\ result'.ok) => result'.id > result.id]_vars

(***************************************************************************)
(* The racing system: two callers, each call a load step and a save step   *)
(***************************************************************************)
RaceAddInputs == {ValidAdd1, ValidAdd2, [ValidAdd1 EXCEPT !.category = "Bogus"]}

\* The ids the racing deletes ask for: the first record's and the second's.
RaceDeleteIds == {1, 2}

Other(p) == CHOOSE q \in Procs : q # p

CanBegin(p) == procs[p].pc \in {"idle", "done"}

\* The caller p has loaded; a caller that has loaded and not yet saved now
\* overlaps with it.
Loaded(p, call) ==
    LET q == Other(p)
        racing == procs[q].pc = "loaded"
    IN  procs' = [procs EXCEPT
                    ![p] = call @@ [pc |-> "loaded", overlap |-> racing],
                    ![q] = IF racing THEN [@ EXCEPT !.overlap = TRUE] ELSE @]

Done(p, call, res) ==
    procs' = [procs EXCEPT
                ![p] = [pc |-> "done", op |-> call.op, args |-> call.args,
                        data |-> call.data, overlap |-> call.overlap,
                        res |-> res]]

\* The save step of p writes data and returns res.
Write(p, data, outcome, res) ==
    LET saved == save_data(file, data, outcome)
    IN  /\ file' = saved.file
        /\ lastSaved' = IF saved.ret THEN data ELSE lastSaved
        /\ lastWriter' = IF saved.ret THEN p ELSE lastWriter
        /\ Done(p, procs[p], res)
        /\ UNCHANGED <<result, artifacts>>

\* add_expense up to the return of load_data
AddBegin(p, a) ==
    /\ CanBegin(p)
    /\ IF add_validate(a) # ""
       THEN Done(p, [op |-> "add", args |-> a, data |-> <<>>,
                     overlap |-> FALSE],
                 add_expense(file, a, "ok").res)
       ELSE /\ Len(Store) < MaxRecords
            /\ new_id(Store) <= MaxId
            /\ Loaded(p, [op |-> "add", args |-> a, data |-> Store])
    /\ UNCHANGED <<file, lastSaved, result, lastWriter, artifacts>>

\* add_expense from the new id to the return
AddSave(p) ==
    /\ procs[p].pc = "loaded"
    /\ procs[p].op = "add"
    /\ \E outcome \in SaveOutcomes :
          LET r == add_expense(ArrayFile(procs[p].data), procs[p].args, outcome)
          IN  Write(p, r.data, outcome, r.res)

\* delete_expense up to the length test
DeleteBegin(p, expense_id) ==
    /\ CanBegin(p)
    /\ IF ~HasId(Store, expense_id)
       THEN Done(p, [op |-> "delete", args |-> expense_id, data |-> <<>>,
                     overlap |-> FALSE],
                 delete_expense(file, expense_id, "ok").res)
       ELSE Loaded(p, [op |-> "delete", args |-> expense_id, data |-> Store])
    /\ UNCHANGED <<file, lastSaved, result, lastWriter, artifacts>>

\* delete_expense from the save to the return
DeleteSave(p) ==
    /\ procs[p].pc = "loaded"
    /\ procs[p].op = "delete"
    /\ \E outcome \in SaveOutcomes :
          LET r == delete_expense(ArrayFile(procs[p].data), procs[p].args,
                                  outcome)
          IN  Write(p, r.data, outcome, r.res)

NextRace ==
    \/ \E p \in Procs, a \in RaceAddInputs : AddBegin(p, a)
    \/ \E p \in Procs : AddSave(p)
    \/ \E p \in Procs, expense_id \in RaceDeleteIds : DeleteBegin(p, expense_id)
    \/ \E p \in Procs : DeleteSave(p)

SpecRace == Init /\ [][NextRace]_vars

AddedOk(p) ==
    /\ procs[p].pc = "done"
    /\ procs[p].op = "add"
    /\ procs[p].res.ok

\* C7: when two adds have both loaded before either saved and both report
\* success, the store is what the last saver loaded plus the last saver's
\* record: the record of the other add is lost.
LastWriterWins ==
    \A p, q \in Procs :
        (/\ p # q
         /\ AddedOk(p) /\ AddedOk(q)
         /\ procs[p].overlap /\ procs[q].overlap
         /\ lastWriter = p) =>
            /\ Store = Append(procs[p].data,
                              expense_of(procs[p].res.id, procs[p].args))
            /\ procs[q].data = procs[p].data =>
                  /\ procs[q].res.id = procs[p].res.id
                  /\ Len(Store) = Len(procs[q].data) + 1

\* Two different adds have raced on a store of one record, both have returned
\* ok, and the store holds that record and one new record.
LostUpdateReached ==
    /\ AddedOk(1) /\ AddedOk(2)
    /\ procs[1].overlap /\ procs[2].overlap
    /\ procs[1].args # procs[2].args
    /\ procs[1].data = procs[2].data
    /\ Len(procs[1].data) = 1
    /\ lastWriter = 1
    /\ Len(Store) = 2

(***************************************************************************)
(* Time windows and monthly buckets                                        *)
(***************************************************************************)
\* date.toordinal: the number of the day in the proleptic calendar
DaysBeforeYear(y) ==
    (y - 1) * 365 + (y - 1) \div 4 - (y - 1) \div 100 + (y - 1) \div 400

RECURSIVE DaysBeforeMonth(_, _)
DaysBeforeMonth(y, m) ==
    IF m = 1 THEN 0 ELSE DaysInMonth(y, m - 1) + DaysBeforeMonth(y, m - 1)

toordinal(t) == DaysBeforeYear(t.y) + DaysBeforeMonth(t.y, t.m) + t.d

\* df['date'] >= datetime.now() - timedelta(days): the cutoff carries the
\* clock time of now, which is after midnight; now.late says that it is
\* also after the time of day of the stored dates that have one.
on_or_after_cutoff(ts, now, days) ==
    /\ ~ts.nat
    /\ LET cutoff == toordinal(now) - days
       IN  \/ toordinal(ts) > cutoff
           \/ toordinal(ts) = cutoff /\ ts.tod = 1 /\ ~now.late

\* df[df['category'] == category]
cat_data(rows, category) == SelectSeq(rows, LAMBDA r : r.category = category)

month_index(ts) == ts.y * 12 + ts.m - 1

\* set_index('date').resample('MS')['amount'].sum(): one bucket for every
\* month from the first to the last month that has a row, empty months
\* included with the sum 0
monthly_totals(rows) ==
    IF rows = <<>> THEN <<>>
    ELSE LET idx == {month_index(rows[i].date) : i \in 1..Len(rows)}
             lo == CHOOSE x \in idx : \A z \in idx : x <= z
             hi == CHOOSE x \in idx : \A z \in idx : x >= z
         IN  [k \in 1..(hi - lo + 1) |->
                SumAmount(SelectSeq(rows,
                    LAMBDA r : month_index(r.date) = lo + k - 1))]

(***************************************************************************)
(* Analytics.detect_trends                                                 *)
(***************************************************************************)
MsgTrendInsufficient == "Insufficient data for trend analysis"
MsgTrendNoData == "No data in specified period"

trend_of(totals) ==
    LET first == totals[1]
        last == totals[Len(totals)]
    IN  [direction |-> IF last > first THEN "increasing" ELSE "decreasing",
         percent_change |-> IF first > 0 THEN Quot((last - first) * 100, first)
                            ELSE Quot(0, 1),
         current_average |-> last,
         previous_average |-> first]

detect_trends(df, months, now) ==
    LET recent_data ==
            SelectSeq(df, LAMBDA r : on_or_after_cutoff(r.date, now, months * 30))
        totals(c) == monthly_totals(cat_data(recent_data, c))
        reported == {c \in DEFAULT_CATEGORIES :
                        /\ Len(cat_data(recent_data, c)) >= 2
                        /\ Len(totals(c)) >= 2}
    IN  IF df = <<>> \/ Len(df) < 2
        THEN [status |-> MsgTrendInsufficient, trends |-> <<>>,
              analysis_period_months |-> None]
        ELSE IF recent_data = <<>>
        THEN [status |-> MsgTrendNoData, trends |-> <<>>,
              analysis_period_months |-> None]
        ELSE [status |-> "",
              trends |-> [c \in reported |-> trend_of(totals(c))],
              analysis_period_months |-> months]

(***************************************************************************)
(* SpendingPredictor.predict_next_month                                    *)
(***************************************************************************)
MsgInsufficient == "Insufficient data"

RECURSIVE SumSeq(_)
SumSeq(q) == IF q = <<>> THEN 0 ELSE Head(q) + SumSeq(Tail(q))

\* LinearRegression().fit(X, y) with X = 0, 1, .., n-1: the least-squares line
\* through the buckets.  With Sx, Sxx, Sy, Sxy the sums of x, x*x, y and x*y,
\* D = n*Sxx - Sx*Sx and N = n*Sxy - Sx*Sy, the slope is N/D and the intercept
\* (Sy - slope*Sx)/n; a single bucket is fitted by the constant y.
linear_fit(y) ==
    LET n == Len(y)
        Sx == SumSeq([k \in 1..n |-> k - 1])
        Sxx == SumSeq([k \in 1..n |-> (k - 1) * (k - 1)])
        Sy == SumSeq(y)
        Sxy == SumSeq([k \in 1..n |-> (k - 1) * y[k]])
    IN  [n |-> n, Sx |-> Sx, Sy |-> Sy,
         D |-> n * Sxx - Sx * Sx, N |-> n * Sxy - Sx * Sy]

\* model.predict([[idx]])[0], as a quotient with a positive denominator
model_predict(model, idx) ==
    IF model.D = 0 THEN Quot(model.Sy, model.n)
    ELSE Quot(model.Sy * model.D + model.N * (model.n * idx - model.Sx),
              model.n * model.D)

\* int(x): truncation towards zero
int_of_quot(q) ==
    IF q.num >= 0 THEN q.num \div q.den ELSE -((-q.num) \div q.den)

\* A prediction that is reported as it is fitted.
not_floored(x) == x

\* max(0, x) of an integer
floor_at_zero(x) == IF x > 0 THEN x ELSE 0

\* A quotient that is reported as it is fitted.
quot_not_floored(q) == q

\* max(0, x) of a float
floor_quot_at_zero(q) == IF q.num > 0 THEN q ELSE Quot(0, 1)

\* The entry of a category.  Of the fitted values the entry keeps
\* predicted_amount and the sign of the slope; confidence is left out.
forecast_of(monthly) ==
    [predicted_amount |->
         floor_at_zero(int_of_quot(model_predict(linear_fit(monthly),
                                                 Len(monthly)))),
     trend |-> IF linear_fit(monthly).N > 0 THEN "increasing"
               ELSE IF linear_fit(monthly).N < 0 THEN "decreasing"
               ELSE "stable",
     data_points |-> Len(monthly),
     historical_average |-> Quot(SumSeq(monthly), Len(monthly)),
     historical_min |-> CHOOSE x \in Range(monthly) :
                            \A z \in Range(monthly) : x <= z,
     historical_max |-> CHOOSE x \in Range(monthly) :
                            \A z \in Range(monthly) : x >= z]

predict_next_month(df, now) ==
    LET historical ==
            SelectSeq(df, LAMBDA r :
                on_or_after_cutoff(r.date, now, PREDICTION_WINDOW_MONTHS * 30))
        monthly(c) == monthly_totals(cat_data(historical, c))
        forecast == {c \in DEFAULT_CATEGORIES :
                        /\ ~(Len(cat_data(historical, c)) < 3)
                        /\ ~(Len(monthly(c)) < 2)}
    IN  IF df = <<>> \/ Len(df) < MIN_DATA_POINTS_FOR_ML
        THEN [status |-> MsgInsufficient,
              required_data_points |-> MIN_DATA_POINTS_FOR_ML,
              available_data_points |-> Len(df),
              predictions |-> <<>>]
        ELSE [status |-> "",
              required_data_points |-> MIN_DATA_POINTS_FOR_ML,
              available_data_points |-> Len(df),
              predictions |-> [c \in forecast |-> forecast_of(monthly(c))]]

(***************************************************************************)
(* SpendingPredictor.predict_spending_trajectory                           *)
(***************************************************************************)
FORECAST_AHEAD_MONTHS == 3

MsgInvalidParameters == "Invalid parameters"
MsgInsufficientCategory == "Insufficient data for this category"

\* category = "" stands for None and for the empty string
predict_spending_trajectory(df, category) ==
    LET rows == cat_data(df, category)
        monthly == monthly_totals(rows)
        model == linear_fit(monthly)
    IN  IF category = ""
        THEN [error |-> MsgInvalidParameters, trajectory |-> <<>>]
        ELSE IF Len(rows) < 3
        THEN [error |-> MsgInsufficientCategory, trajectory |-> <<>>]
        ELSE [error |-> "",
              trajectory |->
                  [k \in 1..FORECAST_AHEAD_MONTHS |->
                      [month_ahead |-> k,
                       predicted_amount |->
                           floor_quot_at_zero(
                               model_predict(model, Len(monthly) + k - 1))]],
              baseline |-> Quot(SumSeq(monthly), Len(monthly))]

(***************************************************************************)
(* AnomalyDetector.detect_anomalies                                        *)
(***************************************************************************)
SumSquares(rows) ==
    SumAmount([k \in 1..Len(rows) |->
                  [amount |-> rows[k].amount * rows[k].amount]])

\* With n amounts of sum S and sum of squares Q, mean = S/n and
\* std = sqrt(n*Q - S*S)/n.  For an amount a, dev = n*a - S and
\* var = n*Q - S*S, so that (a - mean)/std = dev/sqrt(var).
deviation(rows, amount) == Len(rows) * amount - SumAmount(rows)

variance(rows) ==
    Len(rows) * SumSquares(rows) - SumAmount(rows) * SumAmount(rows)

\* amount > mean + ANOMALY_THRESHOLD_SIGMA * std
above_threshold(rows, amount) ==
    /\ deviation(rows, amount) > 0
    /\ deviation(rows, amount) * deviation(rows, amount) >
          ANOMALY_THRESHOLD_SIGMA * ANOMALY_THRESHOLD_SIGMA * variance(rows)

\* (amount - mean) / std if std > 0 else 0, as the pair dev, var of the
\* number dev/sqrt(var)
z_score(rows, amount) ==
    IF variance(rows) > 0
    THEN [dev |-> deviation(rows, amount), var |-> variance(rows)]
    ELSE [dev |-> 0, var |-> 1]

\* The entries of one category, with the outliers taken from the whole
\* table instead of the rows of the category.
anomalies_of_all_rows(df, category) ==
    LET rows == cat_data(df, category)
        outliers == SelectSeq(df, LAMBDA r : above_threshold(rows, r.amount))
    IN  IF Len(rows) < 5 THEN <<>>
        ELSE [k \in 1..Len(outliers) |->
                [id |-> outliers[k].id, category |-> category,
                 amount |-> outliers[k].amount, date |-> outliers[k].date,
                 note |-> outliers[k].note,
                 z_score |-> z_score(rows, outliers[k].amount)]]

\* The entries of one category, in the order of its rows.
anomalies_of(df, category) ==
    LET rows == cat_data(df, category)
        outliers == SelectSeq(rows, LAMBDA r : above_threshold(rows, r.amount))
    IN  IF Len(rows) < 5 THEN <<>>
        ELSE [k \in 1..Len(outliers) |->
                [id |-> outliers[k].id, category |-> category,
                 amount |-> outliers[k].amount, date |-> outliers[k].date,
                 note |-> outliers[k].note,
                 z_score |-> z_score(rows, outliers[k].amount)]]

RECURSIVE pooled_anomalies(_, _)
pooled_anomalies(df, categories) ==
    IF categories = <<>> THEN <<>>
    ELSE anomalies_of(df, Head(categories))
            \o pooled_anomalies(df, Tail(categories))

\* z-scores are never negative here: a.dev >= 0
z_greater(a, b) == a.dev * a.dev * b.var > b.dev * b.dev * a.var

\* list.sort(key=z_score, reverse=True): the sort is stable, so an entry
\* comes after the entries of a greater z-score and after the earlier entries
\* of the same z-score.
sort_by_z_score(anomalies) ==
    LET before(i) ==
            {j \in 1..Len(anomalies) :
                \/ z_greater(anomalies[j].z_score, anomalies[i].z_score)
                \/ /\ j < i
                   /\ ~z_greater(anomalies[i].z_score, anomalies[j].z_score)}
    IN  [p \in 1..Len(anomalies) |->
            anomalies[CHOOSE i \in 1..Len(anomalies) :
                         Cardinality(before(i)) = p - 1]]

\* A slice that keeps the whole list.
first_ten_untruncated(anomalies) == anomalies

\* anomalies[:10]
first_ten(anomalies) ==
    SubSeq(anomalies, 1, IF Len(anomalies) > 10 THEN 10 ELSE Len(anomalies))

detect_anomalies(df) ==
    LET anomalies == sort_by_z_score(pooled_anomalies(df, CategoryOrder))
    IN  IF df = <<>> \/ Len(df) < MIN_DATA_POINTS_FOR_ML
        THEN [status |-> MsgInsufficient, anomalies |-> <<>>,
              total_anomalies_found |-> None]
        ELSE [status |-> "", anomalies |-> first_ten(anomalies),
              total_anomalies_found |-> Len(anomalies)]

(***************************************************************************)
(* CategoryClassifier                                                      *)
(***************************************************************************)
ModelFile == "classifier_model.pkl"
VectorizerFile == "classifier_vectorizer.pkl"

MsgNeedNotes == [text |-> "Need at least entries with notes",
                 n |-> MIN_NOTES_FOR_TRAINING]
MsgTrained == [text |-> "Classifier trained on", n |-> 0]
MsgTrainingFailed == [text |-> "Training failed", n |-> 0]
MsgNotTrained == "Model not trained yet"

\* What can happen once there are enough notes: the fit raises (an empty
\* vocabulary), the model file cannot be written, the vectorizer file cannot
\* be written, or both files are written.
TrainOutcomes == {"ok", "fit_fails", "fail_before_model",
                  "fail_before_vectorizer"}

\* train_classifier on the files present: the files afterwards and the
\* returned pair
train_classifier(f, present, outcome) ==
    LET noted(rows) == SelectSeq(rows, LAMBDA r : r.note > 0)
    IN  {IF df.raised
         THEN [artifacts |-> present, ok |-> FALSE, msg |-> MsgTrainingFailed]
         ELSE IF Len(noted(df.rows)) < MIN_NOTES_FOR_TRAINING
         THEN [artifacts |-> present, ok |-> FALSE, msg |-> MsgNeedNotes]
         ELSE CASE outcome = "ok" ->
                     [artifacts |-> present \cup {ModelFile, VectorizerFile},
                      ok |-> TRUE,
                      msg |-> [MsgTrained EXCEPT !.n = Len(noted(df.rows))]]
                [] outcome = "fail_before_vectorizer" ->
                     [artifacts |-> present \cup {ModelFile}, ok |-> FALSE,
                      msg |-> MsgTrainingFailed]
                [] OTHER ->
                     [artifacts |-> present, ok |-> FALSE,
                      msg |-> MsgTrainingFailed]
         : df \in load_dataframe(f, "")}

\* predict_category: open() of a file that is not there raises
\* FileNotFoundError, which the handler (ValueError, AttributeError,
\* TypeError) does not catch; a note that is None makes the vectorizer raise
\* AttributeError, which it does.
predict_category(present, note, predicted) ==
    IF ModelFile \notin present \/ VectorizerFile \notin present
    THEN [raised |-> TRUE, error |-> "", default_category |-> "",
          predicted_category |-> ""]
    ELSE IF note = None
    THEN [raised |-> FALSE, error |-> MsgNotTrained,
          default_category |-> "Other", predicted_category |-> ""]
    ELSE [raised |-> FALSE, error |-> "", default_category |-> "",
          predicted_category |-> predicted]

(***************************************************************************)
(* SpendingClustering.cluster_spending_patterns                            *)
(***************************************************************************)
MsgNoSpending == "No spending data"
MsgKMeans == "n_samples=1 should be >= n_clusters"

\* A test of the total that never finds it zero.
no_spending_never(total) == FALSE

\* category_spending.sum() == 0
no_spending(total) == total = 0

\* The spend vector has one row, and KMeans with KMEANS_CLUSTERS clusters
\* raises ValueError on fewer samples than clusters; the handler returns its
\* text.
cluster_spending_patterns(df) ==
    LET category_spending ==
            [k \in 1..Len(CategoryOrder) |->
                SumAmount(cat_data(df, CategoryOrder[k]))]
        answer(error, normalised, kmeans) ==
            [error |-> error, clusters |-> <<>>, normalised |-> normalised,
             kmeans |-> kmeans]
    IN  IF df = <<>> \/ Len(df) < MIN_DATA_POINTS_FOR_ML
        THEN answer(MsgInsufficient, FALSE, FALSE)
        ELSE IF no_spending(SumSeq(category_spending))
        THEN answer(MsgNoSpending, FALSE, FALSE)
        ELSE IF 1 < KMEANS_CLUSTERS
        THEN answer(MsgKMeans, TRUE, TRUE)
        ELSE [error |-> "", clusters |-> <<"cluster_0">>, normalised |-> TRUE,
              kmeans |-> TRUE]

(***************************************************************************)
(* The insight system: stores built by imports, one call at a time         *)
(***************************************************************************)
MaxImports == 2

Repeat(row, n) == [k \in 1..n |-> row]

Row(amount, category, date, note) ==
    [amount |-> IntCell(amount), category |-> category, date |-> date,
     note |-> note]

Csv(rows) == [state |-> "ok", rows |-> rows]

\* Amounts are kept small: the products of z_greater stay within 32 bits.
\* 56 noted Food rows, 11 of them twice the others
BulkCsv ==
    Csv(Repeat(Row(1, "Food", Ymd(2024, 3, 1), 4), 45)
        \o Repeat(Row(2, "Food", Ymd(2024, 3, 1), 4), 11))

\* one high amount among six Transport rows and among seven Health rows, and
\* one very high amount among four Education rows
SpikesCsv ==
    Csv(Repeat(Row(1, "Transport", Ymd(2024, 3, 2), 0), 5)
        \o <<Row(5, "Transport", Ymd(2024, 3, 2), 0)>>
        \o Repeat(Row(1, "Health", Ymd(2024, 3, 2), 0), 6)
        \o <<Row(3, "Health", Ymd(2024, 3, 2), 0)>>
        \o Repeat(Row(1, "Education", Ymd(2024, 3, 2), 0), 3)
        \o <<Row(9, "Education", Ymd(2024, 3, 2), 0)>>)

\* twenty Utilities rows of amount 0
ZeroCsv == Csv(Repeat(Row(0, "Utilities", Ymd(2024, 3, 3), 0), 20))

\* a few rows per category over several months
HistoryCsv ==
    Csv(<<Row(2, "Housing", Ymd(2024, 1, 10), 0),
          Row(3, "Housing", Ymd(2024, 3, 1), 0),
          Row(0, "Entertainment", Ymd(2024, 2, 20), 0),
          Row(7, "Entertainment", Ymd(2024, 3, 5), 0),
          Row(4, "Savings", Ymd(2024, 3, 1), 0),
          Row(6, "Savings", Ymd(2024, 3, 9), 0),
          Row(1, "Shopping", Ymd(2024, 1, 5), 0),
          Row(1, "Shopping", Ymd(2024, 2, 5), 0),
          Row(1, "Gifts", Ymd(2024, 2, 10), 0),
          Row(2, "Gifts", Ymd(2024, 2, 20), 0),
          Row(4, "Gifts", Ymd(2024, 3, 3), 0),
          Row(5, "Insurance", Ymd(2023, 6, 1), 0),
          Row(2, "Insurance", Ymd(2024, 3, 10), 0),
          Row(9, "Other", Ymd(2024, 1, 5), 0),
          Row(4, "Other", Ymd(2024, 2, 5), 0),
          Row(0, "Other", Ymd(2024, 3, 5), 0)>>)

\* a refund entered as a negative amount, and a later expense
RefundCsv ==
    Csv(<<Row(-5, "Travel", Ymd(2024, 2, 1), 0),
          Row(5, "Travel", Ymd(2024, 3, 1), 0)>>)

MlCsvs == {BulkCsv, SpikesCsv, ZeroCsv, HistoryCsv, RefundCsv}

\* The file after importing the sources in turn, starting without a file.
RECURSIVE imported(_)
imported(csvs) ==
    IF csvs = <<>> THEN AbsentFile
    ELSE import_from_csv(imported(SubSeq(csvs, 1, Len(csvs) - 1)),
                         csvs[Len(csvs)], "ok").file

MlFiles ==
    {imported(csvs) :
        csvs \in {q \in SeqsUpTo(MlCsvs, MaxImports) :
                     \A i, j \in 1..Len(q) : i # j => q[i] # q[j]}}

MlNows == {[y |-> 2024, m |-> 3, d |-> 15, late |-> FALSE],
           [y |-> 2024, m |-> 4, d |-> 20, late |-> TRUE]}

TrendMonths == {1, 3}

PredictNotes == {None, 5}

InitML ==
    /\ file \in MlFiles
    /\ lastSaved = load_data(file).data
    /\ result = [op |-> "none"]
    /\ procs = [p \in Procs |-> Idle]
    /\ lastWriter = 0
    /\ artifacts = {}

DetectTrends(months, now) ==
    /\ \E df \in load_dataframe(file, "") :
          result' = [op |-> "detect_trends", months |-> months, now |-> now,
                     raised |-> df.raised,
                     report |-> detect_trends(df.rows, months, now)]
    /\ UNCHANGED <<file, lastSaved, procs, lastWriter, artifacts>>

PredictNextMonth(now) ==
    /\ \E df \in load_dataframe(file, "") :
          result' = [op |-> "predict_next_month", now |-> now,
                     raised |-> df.raised,
                     report |-> predict_next_month(df.rows, now)]
    /\ UNCHANGED <<file, lastSaved, procs, lastWriter, artifacts>>

TrajectoryCategories == {"", "Other", "Gifts", "Food", "Travel"}

PredictSpendingTrajectory(category) ==
    /\ \E df \in load_dataframe(file, "") :
          result' = [op |-> "predict_spending_trajectory",
                     category |-> category, raised |-> df.raised,
                     report |-> predict_spending_trajectory(df.rows, category)]
    /\ UNCHANGED <<file, lastSaved, procs, lastWriter, artifacts>>

DetectAnomalies ==
    /\ \E df \in load_dataframe(file, "") :
          result' = [op |-> "detect_anomalies", raised |-> df.raised,
                     report |-> detect_anomalies(df.rows)]
    /\ UNCHANGED <<file, lastSaved, procs, lastWriter, artifacts>>

ClusterSpendingPatterns ==
    /\ \E df \in load_dataframe(file, "") :
          result' = [op |-> "cluster_spending_patterns", raised |-> df.raised,
                     report |-> cluster_spending_patterns(df.rows)]
    /\ UNCHANGED <<file, lastSaved, procs, lastWriter, artifacts>>

TrainClassifier ==
    /\ \E outcome \in TrainOutcomes :
          \E r \in train_classifier(file, artifacts, outcome) :
              /\ artifacts' = r.artifacts
              /\ result' = [op |-> "train_classifier", ok |-> r.ok,
                            msg |-> r.msg]
    /\ UNCHANGED <<file, lastSaved, procs, lastWriter>>

PredictCategory(note) ==
    /\ \E predicted \in {"Food", "Other"} :
          result' = [op |-> "predict_category", note |-> note,
                     report |-> predict_category(artifacts, note, predicted)]
    /\ UNCHANGED <<file, lastSaved, procs, lastWriter, artifacts>>

NextML ==
    \/ \E months \in TrendMonths, now \in MlNows : DetectTrends(months, now)
    \/ \E now \in MlNows : PredictNextMonth(now)
    \/ \E category \in TrajectoryCategories :
          PredictSpendingTrajectory(category)
    \/ DetectAnomalies
    \/ ClusterSpendingPatterns
    \/ TrainClassifier
    \/ \E note \in PredictNotes : PredictCategory(note)

SpecML == InitML /\ [][NextML]_vars

(***************************************************************************)
(* The query system: filters over imported stores                          *)
(***************************************************************************)
\* two records of one day, one of them with a time of day
TimedCsv ==
    Csv(<<Row(3, "Gifts", YmdHM(2024, 3, 3), 0),
          Row(2, "Travel", Ymd(2024, 3, 3), 0)>>)

QueryCsvs == {HistoryCsv, RefundCsv, TimedCsv}

QueryFiles ==
    {imported(csvs) :
        csvs \in {q \in SeqsUpTo(QueryCsvs, MaxImports) :
                     \A i, j \in 1..Len(q) : i # j => q[i] # q[j]}}

InitQuery ==
    /\ file \in QueryFiles
    /\ lastSaved = load_data(file).data
    /\ result = [op |-> "none"]
    /\ procs = [p \in Procs |-> Idle]
    /\ lastWriter = 0
    /\ artifacts = {}

\* The criteria of a query: category, start_date, end_date, min_amount,
\* max_amount.
Query(category, start_date, end_date, min_amount, max_amount) ==
    [category |-> category, start_date |-> start_date, end_date |-> end_date,
     min_amount |-> min_amount, max_amount |-> max_amount]

FilterQueries ==
    {Query("", NoDate, NoDate, NoBound, NoBound),
     Query("Gifts", NoDate, NoDate, NoBound, NoBound),
     Query("", Ymd(2024, 2, 20), NoDate, NoBound, NoBound),
     Query("", NoDate, Ymd(2024, 3, 3), NoBound, NoBound),
     Query("", NoDate, NoDate, Bound(0), NoBound),
     Query("", NoDate, NoDate, NoBound, Bound(0)),
     Query("", Ymd(2024, 2, 20), NoDate, Bound(0), Bound(4)),
     Query("Travel", NoDate, Ymd(2024, 3, 3), Bound(0), NoBound),
     Query("Gifts", Ymd(2024, 2, 20), Ymd(2024, 3, 3), Bound(2), Bound(4))}

FilterExpenses(category, start_date, end_date, min_amount, max_amount) ==
    /\ \E df \in load_dataframe(file, "") :
          result' = [op |-> "filter_expenses", category |-> category,
                     start_date |-> start_date, end_date |-> end_date,
                     min_amount |-> min_amount, max_amount |-> max_amount,
                     raised |-> df.raised,
                     rows |-> filter_expenses(df.rows, category, start_date,
                                              end_date, min_amount, max_amount)]
    /\ UNCHANGED <<file, lastSaved, procs, lastWriter, artifacts>>

NextQuery ==
    \E q \in FilterQueries :
        FilterExpenses(q.category, q.start_date, q.end_date, q.min_amount,
                       q.max_amount)

SpecQuery == InitQuery /\ [][NextQuery]_vars

(***************************************************************************)
(* Properties of the insight engine                                        *)
(***************************************************************************)
StoredOf(category) == SelectSeq(Store, LAMBDA e : e.category = category)

\* C12: every record that detect_anomalies reports is a stored record of the
\* reported category, that category has at least 5 stored records, and the
\* reported z-score is a defined number, which is 0 when the amounts of the
\* category have the standard deviation 0.
AnomaliesHaveHistoryAndDefinedZScore ==
    (result.op = "detect_anomalies" /\ ~result.raised) =>
        \A k \in 1..Len(result.report.anomalies) :
            LET a == result.report.anomalies[k]
            IN  /\ \E i \in 1..Len(Store) :
                      /\ Store[i].id = a.id
                      /\ Store[i].category = a.category
                /\ Len(StoredOf(a.category)) >= 5
                /\ a.z_score.var > 0
                /\ a.z_score.dev >= 0
                /\ variance(StoredOf(a.category)) = 0 => a.z_score.dev = 0

\* Anomalies are reported from a store that also holds a category of four
\* records with one very high amount and a category of twenty equal amounts:
\* neither of the two is reported.
AnomaliesBesideSparseAndFlatReached ==
    /\ result.op = "detect_anomalies"
    /\ Len(result.report.anomalies) = 2
    /\ Len(StoredOf("Education")) = 4
    /\ \E i \in 1..Len(Store) :
          Store[i].category = "Education" /\ Store[i].amount = 9
    /\ Len(StoredOf("Utilities")) = 20
    /\ variance(StoredOf("Utilities")) = 0
    /\ \A k \in 1..Len(result.report.anomalies) :
          result.report.anomalies[k].category \in {"Transport", "Health"}

\* The ids of the stored records that are above the threshold of their
\* category, for the configured categories that have at least 5 records.
FlaggedIds ==
    {Store[i].id : i \in {j \in 1..Len(Store) :
        /\ Store[j].category \in DEFAULT_CATEGORIES
        /\ Len(StoredOf(Store[j].category)) >= 5
        /\ above_threshold(StoredOf(Store[j].category), Store[j].amount)}}

ZOfId(id) ==
    LET e == Store[CHOOSE i \in 1..Len(Store) : Store[i].id = id]
    IN  z_score(StoredOf(e.category), e.amount)

\* C13: when detect_anomalies analyses the store, total_anomalies_found is
\* the number of flagged records of all categories, the list holds
\* min(10, total_anomalies_found) different flagged records in descending
\* order of z-score, and no flagged record left out has a higher z-score than
\* a listed one.
AnomaliesAreTheTopTenByZScore ==
    (result.op = "detect_anomalies" /\ ~result.raised
        /\ result.report.status = "") =>
        LET listed == result.report.anomalies
            total == result.report.total_anomalies_found
            ids == {listed[k].id : k \in 1..Len(listed)}
        IN  /\ total = Cardinality(FlaggedIds)
            /\ Len(listed) = IF total > 10 THEN 10 ELSE total
            /\ Cardinality(ids) = Len(listed)
            /\ ids \subseteq FlaggedIds
            /\ \A k \in 1..Len(listed) : listed[k].z_score = ZOfId(listed[k].id)
            /\ \A k, l \in 1..Len(listed) :
                  k < l => ~z_greater(listed[l].z_score, listed[k].z_score)
            /\ \A id \in FlaggedIds \ ids :
                  \A k \in 1..Len(listed) :
                      ~z_greater(ZOfId(id), listed[k].z_score)

\* Thirteen records of three categories are flagged and ten are listed; the
\* list starts with the two single spikes and leaves three records out.
MoreThanTenAnomaliesReached ==
    /\ result.op = "detect_anomalies"
    /\ result.report.total_anomalies_found = 13
    /\ Len(result.report.anomalies) = 10
    /\ result.report.anomalies[1].category = "Health"
    /\ result.report.anomalies[2].category = "Transport"
    /\ result.report.anomalies[3].category = "Food"

NotedCount == Len(SelectSeq(Store, LAMBDA e : e.note > 0))

\* C14: training on fewer than 50 noted records returns (false, the message
\* that names 50) and leaves the artifact files as they were; predict_category
\* with no artifact file present returns the 'not trained' result with the
\* default category 'Other' and does not raise.
ClassifierFailsSoftly ==
    [][/\ (result'.op = "train_classifier" /\ NotedCount < 50) =>
             /\ ~result'.ok
             /\ result'.msg = MsgNeedNotes
             /\ result'.msg.n = 50
             /\ artifacts' = artifacts
       /\ (result'.op = "predict_category" /\ artifacts = {}) =>
             /\ ~result'.report.raised
             /\ result'.report.error = MsgNotTrained
             /\ result'.report.default_category = "Other"]_vars

\* C15: on a store of at least MIN_DATA_POINTS_FOR_ML records whose spend is 0
\* in every configured category, cluster_spending_patterns returns the error
\* 'No spending data', different from its other errors, with no clusters, and
\* has neither normalised the vector nor called k-means.
ZeroSpendIsReportedWithoutClustering ==
    (/\ result.op = "cluster_spending_patterns"
     /\ ~result.raised
     /\ Len(Store) >= MIN_DATA_POINTS_FOR_ML
     /\ \A c \in DEFAULT_CATEGORIES : SumAmount(StoredOf(c)) = 0) =>
        /\ result.report.error = MsgNoSpending
        /\ MsgNoSpending \notin {MsgInsufficient, MsgKMeans, ""}
        /\ result.report.clusters = <<>>
        /\ ~result.report.normalised
        /\ ~result.report.kmeans

\* Clustering has been asked for on twenty records of amount 0.
ClusteringOfZeroAmountsReached ==
    /\ result.op = "cluster_spending_patterns"
    /\ Len(Store) = 20
    /\ \A i \in 1..Len(Store) : Store[i].amount = 0
    /\ result.report.error = MsgNoSpending

\* The stored records of a category that are dated within the days before now.
InWindow(category, now, days) ==
    SelectSeq(Store, LAMBDA e :
        /\ e.category = category
        /\ ~to_datetime(e.date).exc
        /\ on_or_after_cutoff(to_datetime(e.date).ts, now, days))

MonthsOf(recs) == {recs[i].date.y * 12 + recs[i].date.m : i \in 1..Len(recs)}

InMonth(recs, month) ==
    SelectSeq(recs, LAMBDA e : e.date.y * 12 + e.date.m = month)

\* C19: detect_trends(months) reports a configured category if and only if
\* its records of the last months*30 days lie in at least 2 different months;
\* for a reported category previous_average and current_average are the sums
\* of the first and the last of those months, direction is 'increasing' when
\* the last is greater than the first and 'decreasing' otherwise, and
\* percent_change is (last-first)/first*100, or 0 when the first is 0.
TrendsCompareFirstAndLastBucket ==
    (result.op = "detect_trends" /\ ~result.raised) =>
        \A c \in DEFAULT_CATEGORIES :
            LET recs == InWindow(c, result.now, result.months * 30)
                lo == CHOOSE x \in MonthsOf(recs) : \A z \in MonthsOf(recs) : x <= z
                hi == CHOOSE x \in MonthsOf(recs) : \A z \in MonthsOf(recs) : x >= z
                first == SumAmount(InMonth(recs, lo))
                last == SumAmount(InMonth(recs, hi))
                trends == result.report.trends
            IN  /\ c \in DOMAIN trends <=> Cardinality(MonthsOf(recs)) >= 2
                /\ c \in DOMAIN trends =>
                      /\ trends[c].previous_average = first
                      /\ trends[c].current_average = last
                      /\ trends[c].direction =
                            IF last > first THEN "increasing" ELSE "decreasing"
                      /\ IF first = 0
                         THEN trends[c].percent_change.num = 0
                         ELSE trends[c].percent_change.num * first =
                                 (last - first) * 100
                                    * trends[c].percent_change.den

\* C20: every category that predict_next_month forecasts has at least 3
\* monthly buckets inside the prediction window, and the data_points of its
\* forecast is at least 3.
ForecastsNeedThreeBuckets ==
    (result.op = "predict_next_month" /\ ~result.raised) =>
        \A c \in DOMAIN result.report.predictions :
            LET recs == InWindow(c, result.now, PREDICTION_WINDOW_MONTHS * 30)
                lo == CHOOSE x \in MonthsOf(recs) : \A z \in MonthsOf(recs) : x <= z
                hi == CHOOSE x \in MonthsOf(recs) : \A z \in MonthsOf(recs) : x >= z
            IN  /\ hi - lo + 1 >= 3
                /\ result.report.predictions[c].data_points >= 3

\* C21: no predicted_amount of predict_next_month and none in a trajectory
\* of predict_spending_trajectory is below 0, also where the fitted line is
\* below 0 at the predicted index.
PredictedAmountsAreNeverNegative ==
    /\ result.op = "predict_next_month" =>
          \A c \in DOMAIN result.report.predictions :
              result.report.predictions[c].predicted_amount >= 0
    /\ result.op = "predict_spending_trajectory" =>
          \A k \in 1..Len(result.report.trajectory) :
              /\ result.report.trajectory[k].predicted_amount.den > 0
              /\ result.report.trajectory[k].predicted_amount.num >= 0

\* The forecast of a category whose buckets 9, 4, 0 fall steeply: the fitted
\* line is below 0 at the next index, and the forecast is 0.
ForecastOfSteepDeclineReached ==
    /\ result.op = "predict_next_month"
    /\ "Other" \in DOMAIN result.report.predictions
    /\ monthly_totals(StoredOf("Other")) = <<9, 4, 0>>
    /\ model_predict(linear_fit(<<9, 4, 0>>), 3).num < 0
    /\ result.report.predictions["Other"].data_points = 3
    /\ result.report.predictions["Other"].trend = "decreasing"
    /\ result.report.predictions["Other"].predicted_amount = 0

\* C22: whatever the size of the store, detect_anomalies counts every record
\* that is above mean + 2*std of its category of at least 5 records, and
\* reports no other record.
EveryOutlierIsCountedWhateverTheStoreSize ==
    (result.op = "detect_anomalies" /\ ~result.raised) =>
        LET listed == result.report.anomalies
            counted == IF result.report.status = ""
                       THEN result.report.total_anomalies_found
                       ELSE Len(listed)
        IN  /\ counted = Cardinality(FlaggedIds)
            /\ \A k \in 1..Len(listed) : listed[k].id \in FlaggedIds

\* The order of date strings: the order of the days, and a date with a time
\* of day after the same date without one.
DateKey(date) ==
    ((date.y * 12 + date.m) * 32 + date.d) * 2
        + (IF date.fmt = "Y-m-d" THEN 0 ELSE 1)

\* C23: filter_expenses returns exactly the stored records, in their order,
\* that have the category when one is given, a date from dateFrom on and up to
\* dateTo when these are given, and an amount of at least minAmount and at
\* most maxAmount when these are given, a bound of 0 included; with no
\* criterion it returns the whole store.
FilterReturnsExactlyTheMatches ==
    (result.op = "filter_expenses" /\ ~result.raised) =>
        /\ Ids(result.rows) =
              Ids(SelectSeq(Store, LAMBDA e :
                    /\ result.category # "" => e.category = result.category
                    /\ result.start_date # NoDate =>
                          DateKey(e.date) >= DateKey(result.start_date)
                    /\ result.end_date # NoDate =>
                          DateKey(e.date) <= DateKey(result.end_date)
                    /\ result.min_amount # NoBound =>
                          e.amount >= result.min_amount.v
                    /\ result.max_amount # NoBound =>
                          e.amount <= result.max_amount.v))
        /\ (/\ result.category = ""
            /\ result.start_date = NoDate
            /\ result.end_date = NoDate
            /\ result.min_amount = NoBound
            /\ result.max_amount = NoBound) => Ids(result.rows) = Ids(Store)

\* A filter with the bounds 0 and 4 on a store that holds a negative amount
\* and amounts above 4 has returned some records and left others out.
FilterWithZeroBoundReached ==
    /\ result.op = "filter_expenses"
    /\ ~result.raised
    /\ result.min_amount = Bound(0)
    /\ result.max_amount = Bound(4)
    /\ result.start_date # NoDate
    /\ \E i \in 1..Len(Store) : Store[i].amount < 0
    /\ \E i \in 1..Len(Store) : Store[i].amount > 4
    /\ result.rows # <<>>
    /\ Len(result.rows) < Len(Store)

\* The rows of a source whose amount is a number.
Converting(csv) == SelectSeq(csv.rows, LAMBDA row : row.amount.t \in {"int", "tenths"})

\* The store after an import is the store before it, in order, followed by
\* count records with the ids max(existing ids, default 0) + 1, + 2, ...
AppendedWithNextIds(count) ==
    /\ Len(StoreAfter) = Len(Store) + count
    /\ SubSeq(StoreAfter, 1, Len(Store)) = Store
    /\ \A k \in 1..count :
          StoreAfter[Len(Store) + k].id
              = MaxOf({Store[i].id : i \in 1..Len(Store)}, 0) + k

ArtifactIsAConsistentPair ==
    [][/\ (ModelFile \in artifacts') <=> (VectorizerFile \in artifacts')
       /\ (result'.op = "train_classifier" /\ ~result'.ok) =>
             artifacts' = artifacts]_vars

\* C26: in every result of budget_alert the three counts add up to
\* total_categories, which is the number of budgeted categories; the alerts
\* are warning_count warning entries and critical_count critical entries and
\* nothing else, and no category has two entries.
BudgetReportCountsAgree ==
    (result.op = "budget_alert" /\ ~result.raised) =>
        LET report == result.report
            alerts == report.alerts
            budgeted == IF result.budgets.given THEN result.budgets.items
                        ELSE DEFAULT_BUDGETS
            entries(st) == {k \in 1..Len(alerts) : alerts[k].status = st}
        IN  /\ report.on_track_count + report.warning_count
                    + report.critical_count = report.total_categories
            /\ report.total_categories = Len(budgeted)
            /\ Len(alerts) = report.warning_count + report.critical_count
            /\ Cardinality(entries("warning")) = report.warning_count
            /\ Cardinality(entries("critical")) = report.critical_count
            /\ \A k \in 1..Len(alerts) :
                  /\ alerts[k].status \in {"warning", "critical"}
                  /\ \E i \in 1..Len(budgeted) :
                        budgeted[i].category = alerts[k].category
            /\ \A k, l \in 1..Len(alerts) :
                  k # l => alerts[k].category # alerts[l].category

\* budget_alert under the default budgets on a store with one category over
\* its budget: one critical entry and twelve categories on track.
BudgetReportWithOneCriticalReached ==
    /\ result.op = "budget_alert"
    /\ ~result.raised
    /\ result.budgets = NoBudgets
    /\ Len(Store) = 2
    /\ result.report.critical_count = 1
    /\ result.report.on_track_count = 12
    /\ Len(result.report.alerts) = 1
    /\ result.report.alerts[1].status = "critical"

\* C27: on a store of at least MIN_DATA_POINTS_FOR_ML records with a total
\* spend other than 0, cluster_spending_patterns returns a result without an
\* error, with the configured 3 clusters.
ClusteringSucceedsOnEnoughData ==
    (/\ result.op = "cluster_spending_patterns"
     /\ ~result.raised
     /\ Len(Store) >= MIN_DATA_POINTS_FOR_ML
     /\ SumAmount(Store) # 0) =>
        /\ result.report.error = ""
        /\ Len(result.report.clusters) = KMEANS_CLUSTERS

\* The store before the add that has just succeeded: by C1 the add appended
\* one record, so it is the store without its last record.
BeforeTheAdd == SubSeq(Store, 1, Len(Store) - 1)

\* A delete of the id just deleted fails with not-found and changes nothing.
SecondDeleteFails ==
    (/\ result.op = "delete"
     /\ result.ok
     /\ result'.op = "delete"
     /\ result'.id = result.id) =>
        /\ ~result'.ok
        /\ result'.msg = MsgNotFound
        /\ file' = file

\* C28 as stated: the delete of the id that the add before it returned
\* always succeeds and leaves the store as it was before the add, and a
\* second delete of that id fails with not-found and changes nothing.
DeleteAfterAddAlwaysRestores ==
    [][/\ (/\ result.op = "add"
           /\ result.ok
           /\ result'.op = "delete"
           /\ result'.id = result.id) =>
              /\ result'.ok
              /\ StoreAfter = BeforeTheAdd
       /\ SecondDeleteFails]_vars

\* C28: the delete of the id that the add before it returned, when its save
\* succeeds, returns ok and leaves the store as it was before the add, same
\* records in the same order; when its save fails it returns not ok with the
\* save-failure message.  A second delete of that id fails with not-found
\* and changes nothing.
DeleteAfterAddRestoresTheStore ==
    [][/\ (/\ result.op = "add"
           /\ result.ok
           /\ result'.op = "delete"
           /\ result'.id = result.id) =>
              /\ Store[Len(Store)].id = result.id
              /\ result'.ok = result'.saved
              /\ result'.saved => StoreAfter = BeforeTheAdd
              /\ ~result'.saved => result'.msg = MsgDeleteFailed
       /\ SecondDeleteFails]_vars

\* The only record of the store, with the id 1, has been deleted again: the
\* store is an empty array, as before the record was added.
AddedRecordDeletedAgainReached ==
    /\ result.op = "delete"
    /\ result.ok
    /\ result.id = 1
    /\ file = ArrayFile(<<>>)
    /\ lastSaved = <<>>

(***************************************************************************)
(* get_expense, daily_summary, compare_to_clusters                         *)
(***************************************************************************)
\* The first record with the id, or None.
get_expense(f, expense_id) ==
    LET data == load_data(f).data
        hits == SelectSeq(data, LAMBDA e : Get(e, "id", None) = expense_id)
    IN  IF hits = <<>> THEN [found |-> FALSE, expense |-> <<>>]
        ELSE [found |-> TRUE, expense |-> hits[1]]

\* df['date'].dt.strftime("%Y-%m-%d") == date: the time of day is dropped,
\* NaT formats to NaN, and only a "YYYY-MM-DD" string can be equal.
on_date(r, date) ==
    /\ ~r.date.nat
    /\ date.fmt = "Y-m-d"
    /\ r.date.y = date.y
    /\ r.date.m = date.m
    /\ r.date.d = date.d

\* date None stands for today.
daily_summary(df, date_arg, now) ==
    LET date == IF date_arg = NoDate THEN Ymd(now.y, now.m, now.d)
                ELSE date_arg
        day_data == SelectSeq(df, LAMBDA r : on_date(r, date))
    IN  IF df = <<>>
        THEN [date |-> date, total |-> 0, by_category |-> <<>>,
              transaction_count |-> 0]
        ELSE [date |-> date, total |-> SumAmount(day_data),
              by_category |-> GroupSum(day_data),
              transaction_count |-> Len(day_data)]

MsgNoDataToCompare == "No data"

\* The report keeps the total and the distribution in percent; the dominant
\* categories are derived from the distribution.
compare_to_clusters(df) ==
    LET category_dist == GroupSum(df)
        total == SumAmount(df)
    IN  IF df = <<>>
        THEN [error |-> MsgNoDataToCompare, total_spending |-> 0,
              category_distribution |-> <<>>]
        ELSE IF no_spending(total)
        THEN [error |-> MsgNoSpending, total_spending |-> 0,
              category_distribution |-> <<>>]
        ELSE [error |-> "", total_spending |-> total,
              category_distribution |->
                  [c \in DOMAIN category_dist |->
                      Quot(category_dist[c] * 100, total)]]

(***************************************************************************)
(* The whole interface: every call that reads the store beside the calls   *)
(* that write it                                                           *)
(***************************************************************************)
FrameFiles == {AbsentFile, CorruptFile, imported(<<SpikesCsv, HistoryCsv>>)}

FrameAddInputs == {ValidAdd1, [ValidAdd1 EXCEPT !.category = "Bogus"]}

FrameDeleteIds == {1, 2}

FrameCsvInputs ==
    {Csv(<<GoodRow>>), Csv(<<WildRow>>), Csv(<<TextAmountRow>>),
     [state |-> "missing", rows |-> <<>>]}

FrameQueries ==
    {Query("", NoDate, NoDate, NoBound, NoBound),
     Query("Travel", NoDate, Ymd(2024, 3, 3), Bound(0), NoBound)}

FrameDates == {NoDate, Ymd(2024, 3, 2)}

FrameNow == [y |-> 2024, m |-> 3, d |-> 15, late |-> FALSE]

InitFrame ==
    /\ file \in FrameFiles
    /\ lastSaved = load_data(file).data
    /\ result = [op |-> "none"]
    /\ procs = [p \in Procs |-> Idle]
    /\ lastWriter = 0
    /\ artifacts = {}

GetExpense(expense_id) ==
    /\ result' = [op |-> "get_expense", id |-> expense_id,
                  found |-> get_expense(file, expense_id).found,
                  expense |-> get_expense(file, expense_id).expense]
    /\ UNCHANGED <<file, lastSaved, procs, lastWriter, artifacts>>

DailySummary(date, now) ==
    /\ \E df \in load_dataframe(file, "") :
          result' = [op |-> "daily_summary", raised |-> df.raised,
                     summary |-> daily_summary(df.rows, date, now)]
    /\ UNCHANGED <<file, lastSaved, procs, lastWriter, artifacts>>

CompareToClusters ==
    /\ \E df \in load_dataframe(file, "") :
          result' = [op |-> "compare_to_clusters", raised |-> df.raised,
                     report |-> compare_to_clusters(df.rows)]
    /\ UNCHANGED <<file, lastSaved, procs, lastWriter, artifacts>>

NextFrame ==
    \/ \E a \in FrameAddInputs : Add(a)
    \/ \E expense_id \in FrameDeleteIds : Delete(expense_id)
    \/ \E csv \in FrameCsvInputs : Import(csv)
    \/ Load
    \/ \E username \in {"", "alice"} : LoadDataframe(username)
    \/ \E expense_id \in FrameDeleteIds : GetExpense(expense_id)
    \/ \E q \in FrameQueries :
          FilterExpenses(q.category, q.start_date, q.end_date, q.min_amount,
                         q.max_amount)
    \/ \E date \in FrameDates : DailySummary(date, FrameNow)
    \/ MonthlySummary(FrameNow.y, FrameNow.m)
    \/ CategorySummary(NoDate, NoDate)
    \/ DetectTrends(3, FrameNow)
    \/ BudgetAlert(NoBudgets, FrameNow)
    \/ PredictNextMonth(FrameNow)
    \/ DetectAnomalies
    \/ ClusterSpendingPatterns
    \/ CompareToClusters

SpecFrame == InitFrame /\ [][NextFrame]_vars

ReadOps ==
    {"load", "load_dataframe", "get_expense", "filter_expenses",
     "daily_summary", "monthly_summary", "category_summary", "detect_trends",
     "budget_alert", "predict_next_month", "detect_anomalies",
     "cluster_spending_patterns", "compare_to_clusters"}

WriteOps == {"add", "delete", "import"}

\* The calls that the claim lists leave the file as it is: every reading
\* call, a delete of an id that no record has, and an add that is rejected.
ListedCallsLeaveTheFile ==
    /\ result'.op \in ReadOps => file' = file
    /\ (result'.op = "delete" /\ ~HasId(Store, result'.id)) => file' = file
    /\ (result'.op = "add" /\ Rejected(result'.args)) => file' = file

\* C29 as stated: the reading calls, a not-found delete and a rejected add
\* leave the store unchanged, and the content of the store changes only in
\* an add, a delete or an import that succeeds.
OnlySuccessfulWritesChangeTheStore ==
    [][/\ ListedCallsLeaveTheFile
       /\ StoreAfter # Store => (result'.op \in WriteOps /\ result'.ok)]_vars

\* C29: the reading calls, a not-found delete and a rejected add leave the
\* file of the store as it is.  The file changes only in an add, a delete or
\* an import that reaches its save, and the content of the store changes
\* only when that call succeeds or when its save fails after the file was
\* opened for writing: the call then returns not ok and the store loads as
\* empty.
OnlyWritesThatSaveChangeTheStore ==
    [][/\ ListedCallsLeaveTheFile
       /\ file' # file => (result'.op \in WriteOps /\ result'.saves = 1)
       /\ StoreAfter # Store =>
             /\ result'.op \in WriteOps
             /\ result'.ok \/ (file' = CorruptFile /\ StoreAfter = <<>>)]_vars

\* A reading call has reported on a store of twenty records or more that a
\* delete before it has changed.
ReadAfterWriteReached ==
    /\ result.op = "compare_to_clusters"
    /\ result.report.error = ""
    /\ Len(Store) >= MIN_DATA_POINTS_FOR_ML
    /\ Store # imported(<<SpikesCsv, HistoryCsv>>).records

\* The records that carry no username field.
Unowned(data) == SelectSeq(data, LAMBDA e : "username" \notin DOMAIN e)

OfCategory(data, c) == SelectSeq(data, LAMBDA e : e.category = c)

====
